---- MODULE Spec2Model ----
(***************************************************************************)
(* A model of the kinship-comparison engine of ycomp: the haplogroup tree  *)
(* index and lineage filter (db.py), the tri-state SNP algebra (db.py) and *)
(* the SNP and STR comparators (snp_cmd.py, str_cmd.py).                   *)
(***************************************************************************)
EXTENDS Integers, Sequences, FiniteSets, TLC

(***************************************************************************)
(* Bounds of the model.                                                    *)
(***************************************************************************)
\* The walk of get_haplogroup_lineage is followed for at most MaxWalk
\* appended ids (the code itself has no such limit).
MaxWalk == 5
\* The --haplogroup-max-diff option ranges over 0..MaxDiffOpt (or is absent).
MaxDiffOpt == 2
\* A locus holds at most MaxCopies repeat counts.
MaxCopies == 3

(***************************************************************************)
(* Haplogroup tree index and lineage filter (db.py).                       *)
(***************************************************************************)
\* The haplogroup ids of the model.
HG == {"A", "B", "C", "D"}
\* A missing value (None / NaN) of a string column.
Null == "NaN"
\* A missing value of an Optional[...] command-line option.
None == <<>>

\* The tree tables: a row for some of the ids, each row holding a parent id
\* (an id of HG, with or without a row of its own) or a missing value.
Trees == UNION {[dom -> HG \cup {Null}] : dom \in SUBSET HG}

VARIABLES
    tree_df,            \* the tree table: haplogroup id -> "Parent Haplogroup"
    self_kit_hg,        \* the reference kit's "Haplogroup"
    kit_hg,             \* the candidate kit's "Haplogroup" (b["Haplogroup"])
    pc,                 \* position in the run
    cur_hg,             \* get_haplogroup_lineage: cur_hg
    lineage,            \* get_haplogroup_lineage: lineage
    broke,              \* get_haplogroup_lineage: the loop was left by break
    self_kit_lineage,   \* analyze: self_kit_lineage (a_lineage of the filter)
    b_lineage,          \* kit_matches_lineage: b_lineage
    haplogroup,         \* the --haplogroup option (None or <<id>>)
    haplogroup_max_diff,\* the --haplogroup-max-diff option (None or <<n>>)
    common_lineage,     \* kit_matches_lineage: common_lineage
    matches             \* the result of kit_matches_lineage

lineageVars == <<tree_df, self_kit_hg, kit_hg, pc, cur_hg, lineage, broke,
                 self_kit_lineage, b_lineage, haplogroup, haplogroup_max_diff,
                 common_lineage, matches>>

VARIABLES
    snp_tree,           \* the tree table: clade -> TMRCA, primary and extra SNPs
    snps_df,            \* the SNPs table: alternate name -> "Standard Name"
    self_raw,           \* the reference kit's row of the kit table (SNP calls)
    kit_raw,            \* a candidate kit's row of the kit table (SNP calls)
    snp_pc,             \* position in the SNP analysis
    snp_cols,           \* the columns of kits_snps_df when the kits are compared
    self_kit_s,         \* analyze: self_kit_s
    kit_s,              \* analyze: the candidate's row of kits_snps_df
    shared_snps,        \* analyze: the candidate's row of shared_snps (line 353)
    assum_shared_snps,  \* analyze: the candidate's row of assum_shared_snps
    all_shared_snps,    \* analyze: the candidate's row of shared_snps (line 365)
    snp_res             \* the candidate's row of results_df

snpVars == <<snp_tree, snps_df, self_raw, kit_raw, snp_pc, snp_cols, self_kit_s,
             kit_s, shared_snps, assum_shared_snps, all_shared_snps, snp_res>>

VARIABLES
    str_pc,             \* position in the STR comparison of one locus
    str_a,              \* get_diff: a, the reference kit's value at the locus
    str_b,              \* get_diff: b, the candidate kit's value at the locus
    str_diff            \* the list get_diff returns

strVars == <<str_pc, str_a, str_b, str_diff>>

VARIABLES
    run_cmd,            \* the command of the run: "snp" or "str" (analyze)
    tree_missing,       \* load_db(tree_path) has returned None
    kits_df,            \* the kit table: index, "Haplogroup" and marker columns
    self_kit,           \* the --kit option
    run_pc,             \* position in the run of analyze
    run_error,          \* the error that ended the run
    total_num_loci,     \* analyze (str_cmd.py): total_num_loci
    results_df,         \* analyze: results_df, in the order of the kit table
    output_file         \* the rows written to output_file (None: not written)

runVars == <<run_cmd, tree_missing, kits_df, self_kit, run_pc, run_error, total_num_loci,
             results_df, output_file>>

VARIABLES
    db_file,            \* merge_db: the table stored at path (None: no file)
    merge_calls,        \* the number of merge_db calls made on the path
    merged_rows         \* per key, the row the latest merge holding it supplied

mergeVars == <<db_file, merge_calls, merged_rows>>

VARIABLES
    shelf,              \* the FTDNA login cache: a mapping of keys to values
    login_cmd,          \* the last command run: "signin", "signout", "session"
    login_calls,        \* the number of commands run, the clock of utcnow()
    signin_cookies,     \* signin: cookies, what ftdna_signin returned
    session_echo        \* session: the line it printed

loginVars == <<shelf, login_cmd, login_calls, signin_cookies, session_echo>>

VARIABLES
    fetch_pc,           \* position in ftdna_fetch_kits
    page_size,          \* ftdna_fetch_kits: page_size (None or <<n>>)
    prelim,             \* ftdna_fetch_kits: prelim
    response,           \* browser.page, the page the server sent last
    page_df,            \* ftdna_fetch_kits: page_df (None or <<table>>)
    last_table,         \* the table of the page processed last, as served
    fetch_kits_df,      \* ftdna_fetch_kits: kits_df (None or <<rows>>)
    fetch_error         \* the error ftdna_fetch_kits raised

fetchVars == <<fetch_pc, page_size, prelim, response, page_df, last_table,
               fetch_kits_df, fetch_error>>

VARIABLES
    ingest_cmd,         \* the ingestion command: "add_yfull" or "fetch_ftdna"
    ingest_pc,          \* position in the command
    ingest_kit,         \* add_yfull: kit
    yfull_rows,         \* get_yfull_df: the rows of the file (columns 1, 2, 3)
    ftdna_cells,        \* fetch_ftdna: "Confirmed SNPs" of the kits, in tokens
    snp_db,             \* the table stored at kits_snp_path (None: no file)
    ingest_error        \* the error the command raised

ingestVars == <<ingest_cmd, ingest_pc, ingest_kit, yfull_rows, ftdna_cells,
                snp_db, ingest_error>>

ioVars == <<mergeVars, loginVars, fetchVars, ingestVars>>

vars == <<lineageVars, snpVars, strVars, runVars, ioVars>>

Abs(x) == IF x < 0 THEN -x ELSE x

Reverse(s) == [i \in 1..Len(s) |-> s[Len(s) + 1 - i]]

Range(s) == {s[i] : i \in 1..Len(s)}

Min2(x, y) == IF x <= y THEN x ELSE y

\* takewhile(lambda hgs: hgs[0] == hgs[1], zip(ra, rb)): the number of leading
\* positions at which the two sequences agree.
RECURSIVE TakeWhileEqual(_, _, _)
TakeWhileEqual(ra, rb, i) ==
    IF i <= Min2(Len(ra), Len(rb)) /\ ra[i] = rb[i]
    THEN TakeWhileEqual(ra, rb, i + 1)
    ELSE i - 1

\* A mutant: the first mismatching pair is taken as well.
get_common_lineage_inclusive(a_lineage, b_lineage_) ==
    LET ra == Reverse(a_lineage)
        rb == Reverse(b_lineage_)
        n  == Min2(TakeWhileEqual(ra, rb, 1) + 1, Min2(Len(ra), Len(rb)))
    IN  SubSeq(ra, 1, n)

\* A mutant: the result is turned round, most recent common ancestor first.
get_common_lineage_leaf_first(a_lineage, b_lineage_) ==
    LET ra == Reverse(a_lineage)
        rb == Reverse(b_lineage_)
    IN  Reverse(SubSeq(ra, 1, TakeWhileEqual(ra, rb, 1)))

\* get_common_lineage: hgs[0] of every leading equal pair of the two reversed
\* lineages, in the order of the reversed lineages.
get_common_lineage(a_lineage, b_lineage_) ==
    LET ra == Reverse(a_lineage)
        rb == Reverse(b_lineage_)
    IN  SubSeq(ra, 1, TakeWhileEqual(ra, rb, 1))

\* A mutant: the haplogroup filter is looked up in the reference's lineage.
kit_matches_lineage_self(a_lineage, b_lineage_, hg, max_diff) ==
    LET common        == get_common_lineage(a_lineage, b_lineage_)
        a_lineage_pos == Len(a_lineage) - Len(common)
        b_lineage_pos == Len(b_lineage_) - Len(common)
    IN  IF hg # None /\ hg[1] \notin Range(a_lineage) THEN FALSE
        ELSE IF max_diff # None /\ Abs(a_lineage_pos - b_lineage_pos) > max_diff[1]
             THEN FALSE
             ELSE TRUE

\* A mutant: maxDiff bounds the number of steps between the two haplogroups
\* through their common ancestor.
kit_matches_lineage_steps(a_lineage, b_lineage_, hg, max_diff) ==
    LET common        == get_common_lineage(a_lineage, b_lineage_)
        a_lineage_pos == Len(a_lineage) - Len(common)
        b_lineage_pos == Len(b_lineage_) - Len(common)
    IN  IF hg # None /\ hg[1] \notin Range(b_lineage_) THEN FALSE
        ELSE IF max_diff # None /\ a_lineage_pos + b_lineage_pos > max_diff[1]
             THEN FALSE
             ELSE TRUE

\* kit_matches_lineage, after b_lineage has been computed.
kit_matches_lineage(a_lineage, b_lineage_, hg, max_diff) ==
    LET common        == get_common_lineage(a_lineage, b_lineage_)
        a_lineage_pos == Len(a_lineage) - Len(common)
        b_lineage_pos == Len(b_lineage_) - Len(common)
    IN  IF hg # None /\ hg[1] \notin Range(b_lineage_) THEN FALSE
        ELSE IF max_diff # None /\ Abs(a_lineage_pos - b_lineage_pos) > max_diff[1]
             THEN FALSE
             ELSE TRUE

\* The SNP analysis is not part of the run.
SnpIdle ==
    /\ snp_tree = <<>>
    /\ snps_df = <<>>
    /\ self_raw = <<>>
    /\ kit_raw = <<>>
    /\ snp_pc = "idle"
    /\ snp_cols = <<>>
    /\ self_kit_s = <<>>
    /\ kit_s = <<>>
    /\ shared_snps = <<>>
    /\ assum_shared_snps = <<>>
    /\ all_shared_snps = <<>>
    /\ snp_res = <<>>

\* The STR comparison is not part of the run.
StrIdle ==
    /\ str_pc = "idle"
    /\ str_a = None
    /\ str_b = None
    /\ str_diff = <<>>

\* No database is merged.
MergeIdle ==
    /\ db_file = <<>>
    /\ merge_calls = 0
    /\ merged_rows = <<>>

\* No login command is run.
LoginIdle ==
    /\ shelf = <<>>
    /\ login_cmd = "idle"
    /\ login_calls = 0
    /\ signin_cookies = <<>>
    /\ session_echo = <<>>

\* No kits are fetched.
FetchIdle ==
    /\ fetch_pc = "idle"
    /\ page_size = <<>>
    /\ prelim = TRUE
    /\ response = <<>>
    /\ page_df = <<>>
    /\ last_table = <<>>
    /\ fetch_kits_df = <<>>
    /\ fetch_error = <<>>

\* No kit is ingested.
IngestIdle ==
    /\ ingest_cmd = "idle"
    /\ ingest_pc = "idle"
    /\ ingest_kit = Null
    /\ yfull_rows = <<>>
    /\ ftdna_cells = <<>>
    /\ snp_db = <<>>
    /\ ingest_error = <<>>

\* No ingestion, fetch or login command is run.
IoIdle ==
    /\ MergeIdle
    /\ LoginIdle
    /\ FetchIdle
    /\ IngestIdle

\* No analyze command is run over a kit table.
RunIdle ==
    /\ run_cmd = "idle"
    /\ tree_missing = FALSE
    /\ kits_df = <<>>
    /\ self_kit = Null
    /\ run_pc = "idle"
    /\ run_error = None
    /\ total_num_loci = None
    /\ results_df = <<>>
    /\ output_file = None

\* The lineage filter is not part of the run.
LineageIdle ==
    /\ tree_df = <<>>
    /\ self_kit_hg = Null
    /\ kit_hg = Null
    /\ pc = "idle"
    /\ cur_hg = Null
    /\ lineage = <<>>
    /\ broke = FALSE
    /\ self_kit_lineage = <<>>
    /\ b_lineage = <<>>
    /\ haplogroup = None
    /\ haplogroup_max_diff = None
    /\ common_lineage = <<>>
    /\ matches = FALSE

InitLineage ==
    /\ IoIdle
    /\ SnpIdle
    /\ StrIdle
    /\ RunIdle
    /\ tree_df \in Trees
    /\ self_kit_hg \in HG \cup {Null}
    /\ kit_hg \in HG \cup {Null}
    /\ pc = "start"
    /\ cur_hg = Null
    /\ lineage = <<>>
    /\ broke = FALSE
    /\ self_kit_lineage = <<>>
    /\ b_lineage = <<>>
    /\ haplogroup = None
    /\ haplogroup_max_diff = None
    /\ common_lineage = <<>>
    /\ matches = FALSE

\* analyze: get_haplogroup_lineage(tree_df, self_kit_hg) is entered.
LineageOfSelf ==
    /\ pc = "start"
    /\ pc' = "walk_self"
    /\ cur_hg' = self_kit_hg
    /\ lineage' = <<>>
    /\ broke' = FALSE
    /\ UNCHANGED <<tree_df, self_kit_hg, kit_hg, self_kit_lineage, b_lineage,
                   haplogroup, haplogroup_max_diff, common_lineage, matches,
                   snpVars, strVars, runVars, ioVars>>

\* get_haplogroup_lineage: the condition of the while loop, pd.notna(cur_hg),
\* reached without a break.
LoopContinues == ~broke /\ cur_hg # Null

\* A mutant: the id is looked up before it is collected, so that an id without
\* a row is not collected.
LoopBodySkipUnresolved ==
    IF cur_hg \in DOMAIN tree_df
    THEN /\ lineage' = Append(lineage, cur_hg)
         /\ cur_hg' = tree_df[cur_hg]
         /\ broke' = FALSE
    ELSE /\ lineage' = lineage
         /\ cur_hg' = cur_hg
         /\ broke' = TRUE

\* get_haplogroup_lineage: one pass of the loop body.
LoopBody ==
    /\ lineage' = Append(lineage, cur_hg)
    /\ IF cur_hg \in DOMAIN tree_df
       THEN cur_hg' = tree_df[cur_hg] /\ broke' = FALSE
       ELSE cur_hg' = cur_hg /\ broke' = TRUE

\* get_haplogroup_lineage: one iteration of the while loop.
LineageLoop ==
    /\ pc \in {"walk_self", "walk_kit"}
    /\ LoopContinues
    /\ Len(lineage) < MaxWalk
    /\ LoopBody
    /\ UNCHANGED <<tree_df, self_kit_hg, kit_hg, pc, self_kit_lineage, b_lineage,
                   haplogroup, haplogroup_max_diff, common_lineage, matches,
                   snpVars, strVars, runVars, ioVars>>

\* analyze: get_haplogroup_lineage returns self_kit_lineage, and the filter
\* enters get_haplogroup_lineage(tree_df, b["Haplogroup"]) for the kit.
LineageOfKit ==
    /\ pc = "walk_self"
    /\ ~LoopContinues
    /\ self_kit_lineage' = lineage
    /\ pc' = "walk_kit"
    /\ cur_hg' = kit_hg
    /\ lineage' = <<>>
    /\ broke' = FALSE
    /\ UNCHANGED <<tree_df, self_kit_hg, kit_hg, b_lineage, haplogroup,
                   haplogroup_max_diff, common_lineage, matches, snpVars, strVars, runVars, ioVars>>

\* kit_matches_lineage: b_lineage is returned and the kit is accepted or
\* rejected, under the options of the run.
KitMatchesLineage ==
    /\ pc = "walk_kit"
    /\ ~LoopContinues
    /\ \E hg \in {None} \cup {<<h>> : h \in HG},
          md \in {None} \cup {<<n>> : n \in 0..MaxDiffOpt} :
            /\ haplogroup' = hg
            /\ haplogroup_max_diff' = md
            /\ matches' = kit_matches_lineage(self_kit_lineage, lineage, hg, md)
    /\ b_lineage' = lineage
    /\ common_lineage' = get_common_lineage(self_kit_lineage, lineage)
    /\ pc' = "done"
    /\ UNCHANGED <<tree_df, self_kit_hg, kit_hg, cur_hg, lineage, broke,
                   self_kit_lineage, snpVars, strVars, runVars, ioVars>>

NextLineage ==
    \/ LineageOfSelf
    \/ LineageLoop
    \/ LineageOfKit
    \/ KitMatchesLineage

SpecLineage == InitLineage /\ [][NextLineage]_vars

(***************************************************************************)
(* Properties of the tree index and the lineage filter.                    *)
(***************************************************************************)

\* C3: lineage resolution always terminates, also on a tree in which an id is
\* its own parent or parent pointers form a cycle. The walk is deterministic
\* (the next id is the tree's parent of the current one), so it terminates
\* exactly when it never collects an id a second time.
C3_LineageTerminates ==
    \A i, j \in 1..Len(lineage) : i # j => lineage[i] # lineage[j]

\* l is the lineage of h in tree_df: it begins with h, each next element is
\* the tree-declared parent of the one before, and the last element has no
\* row in the tree or has no parent.
IsLineageOf(l, h) ==
    /\ Len(l) >= 1
    /\ l[1] = h
    /\ \A i \in 1..(Len(l) - 1) : l[i] \in DOMAIN tree_df /\ l[i + 1] = tree_df[l[i]]
    /\ \/ l[Len(l)] \notin DOMAIN tree_df
       \/ tree_df[l[Len(l)]] = Null

\* C4: for every haplogroup h, the returned lineage(h) begins with h, each
\* subsequent element is the tree-declared parent of the element before it,
\* and the list ends at a parentless node or at an id the tree does not
\* resolve.
C4_LineageShape ==
    /\ pc \in {"walk_kit", "done"} /\ self_kit_hg # Null
         => IsLineageOf(self_kit_lineage, self_kit_hg)
    /\ pc = "done" /\ kit_hg # Null => IsLineageOf(b_lineage, kit_hg)

\* C4 witness: a lineage of three ids that ends at an id without a row, and
\* one that ends at a parentless node.
C4_Witness ==
    /\ pc = "done"
    /\ Len(b_lineage) = 3
    /\ b_lineage[3] \notin DOMAIN tree_df
    /\ Len(self_kit_lineage) >= 1
    /\ self_kit_lineage[Len(self_kit_lineage)] \in DOMAIN tree_df
    /\ tree_df[self_kit_lineage[Len(self_kit_lineage)]] = Null

\* The scenario tree: C and D are children of B, B is a child of A, A is the
\* root; the reference kit is in C and the candidate kit in D.
ScenarioTree ==
    /\ tree_df = [h \in HG |-> CASE h = "A" -> Null
                                [] h = "B" -> "A"
                                [] h = "C" -> "B"
                                [] h = "D" -> "B"]
    /\ self_kit_hg = "C"
    /\ kit_hg = "D"

\* c is the longest segment that a and b share counted from the root end
\* (their last elements), stopping at the first mismatch.
IsSharedFromRoot(c, a, b) ==
    /\ Len(c) <= Min2(Len(a), Len(b))
    /\ \A i \in 1..Len(c) : a[Len(a) + 1 - i] = b[Len(b) + 1 - i]
    /\ \/ Len(c) = Min2(Len(a), Len(b))
       \/ a[Len(a) - Len(c)] # b[Len(b) - Len(c)]

\* C5 as stated: the common lineage is the longest segment shared from the
\* root end, returned most recent common ancestor first and root last, so
\* that the scenario gives lineage(C) = [C,B,A] and the common lineage [B,A].
C5_CommonLineageLeafFirst ==
    pc = "done" =>
        /\ IsSharedFromRoot(common_lineage, self_kit_lineage, b_lineage)
        /\ common_lineage = SubSeq(self_kit_lineage,
                                   Len(self_kit_lineage) - Len(common_lineage) + 1,
                                   Len(self_kit_lineage))
        /\ ScenarioTree => /\ self_kit_lineage = <<"C", "B", "A">>
                           /\ common_lineage = <<"B", "A">>

\* C5 amended: the common lineage is the longest segment shared from the root
\* end, returned root first and most recent common ancestor last, so that
\* the scenario gives lineage(C) = [C,B,A] and the common lineage [A,B].
C5_CommonLineageRootFirst ==
    pc = "done" =>
        /\ IsSharedFromRoot(common_lineage, self_kit_lineage, b_lineage)
        /\ \A i \in 1..Len(common_lineage) :
              common_lineage[i] = self_kit_lineage[Len(self_kit_lineage) + 1 - i]
        /\ ScenarioTree => /\ self_kit_lineage = <<"C", "B", "A">>
                           /\ common_lineage = <<"A", "B">>

\* C5 witness: the scenario has been run.
C5_Witness == pc = "done" /\ ScenarioTree /\ Len(common_lineage) = 2

\* C6: get_common_lineage(a, b) equals get_common_lineage(b, a).
C6_CommonLineageSymmetric ==
    pc = "done" =>
        get_common_lineage(self_kit_lineage, b_lineage)
            = get_common_lineage(b_lineage, self_kit_lineage)

\* C6 witness: two different lineages of different lengths that share a
\* segment and then part.
C6_Witness ==
    /\ pc = "done"
    /\ Len(common_lineage) >= 1
    /\ Len(self_kit_lineage) > Len(b_lineage)
    /\ Len(b_lineage) > Len(common_lineage)

\* Each side's depth from the common ancestor.
SelfDepth == Len(self_kit_lineage) - Len(common_lineage)
KitDepth == Len(b_lineage) - Len(common_lineage)

\* C7: the filter rejects a kit exactly when a haplogroup is given and is
\* absent from the kit's lineage, or maxDiff is given and
\* |selfDepth - kitDepth| > maxDiff; so without either option it accepts.
C7_MatchesLineage ==
    pc = "done" =>
        /\ ~matches <=>
              \/ haplogroup # None /\ haplogroup[1] \notin Range(b_lineage)
              \/ /\ haplogroup_max_diff # None
                 /\ Abs(SelfDepth - KitDepth) > haplogroup_max_diff[1]
        /\ haplogroup = None /\ haplogroup_max_diff = None => matches

\* C7 witness: a kit whose lineage holds the given haplogroup is rejected
\* by maxDiff alone.
C7_Witness ==
    /\ pc = "done"
    /\ ~matches
    /\ haplogroup # None /\ haplogroup[1] \in Range(b_lineage)
    /\ haplogroup_max_diff # None
    /\ Len(common_lineage) >= 1

\* C25: the maxDiff criterion depends on the two lineage lengths alone:
\* |selfDepth - kitDepth| = |len(selfLineage) - len(kitLineage)|, so with no
\* haplogroup option a kit is accepted exactly when the two lengths differ by
\* at most maxDiff, and a kit on an unrelated branch (no common lineage) as
\* deep as the reference passes maxDiff = 0.
C25_MaxDiffByLengths ==
    pc = "done" =>
        /\ Abs(SelfDepth - KitDepth)
               = Abs(Len(self_kit_lineage) - Len(b_lineage))
        /\ haplogroup = None /\ haplogroup_max_diff # None =>
              (matches <=> Abs(Len(self_kit_lineage) - Len(b_lineage))
                               <= haplogroup_max_diff[1])
        /\ /\ haplogroup = None /\ haplogroup_max_diff = <<0>>
           /\ common_lineage = <<>>
           /\ Len(self_kit_lineage) = Len(b_lineage)
           => matches

\* C25 witness: the reference and the kit are two steps below two different
\* roots, and the kit has passed maxDiff = 0.
C25_Witness ==
    /\ pc = "done"
    /\ haplogroup = None /\ haplogroup_max_diff = <<0>>
    /\ common_lineage = <<>>
    /\ Len(self_kit_lineage) = 2 /\ Len(b_lineage) = 2
    /\ matches

(***************************************************************************)
(* The tri-state algebra of SNP calls (db.py): a call is the float 1       *)
(* (positive), 0 (negative) or NaN (unknown), and every arithmetic         *)
(* operation with a NaN operand yields NaN.                                *)
(***************************************************************************)
NaN == -1

Tri == {0, 1, NaN}

\* NDFrame.fillna(v)
fillna(a, v) == IF a = NaN THEN v ELSE a

\* 1 - a
float_not(a) == IF a = NaN THEN NaN ELSE 1 - a

\* A mutant: an unknown operand is taken as negative.
float_and_fill(a, b) == fillna(a, 0) * fillna(b, 0)

\* a * b
float_and(a, b) == IF a = NaN \/ b = NaN THEN NaN ELSE a * b

\* A mutant: the operands are not filled, so an unknown operand hides the other.
float_or_nofill(a, b) == float_not(float_and(float_not(a), float_not(b)))

float_or(a, b) ==
    float_not(float_and(float_not(fillna(a, 0)), float_not(fillna(b, 0))))

float_xor(a, b) == float_and(float_or(a, b), float_not(float_and(a, b)))

float_isna(a) == IF a = NaN THEN 1 ELSE 0

float_notna(a) == IF a = NaN THEN 0 ELSE 1

(***************************************************************************)
(* SNP comparator (snp_cmd.py, analyze).                                   *)
(***************************************************************************)
\* The marker columns of the kit table, in column order.
SnpColumns == <<"M1", "M1A", "M2">>

\* The default of the --max-age option.
snp_max_age == 3500

\* The tree tables of the model: clade Y1 introduces M1 (extra name M1A),
\* clade Y2 introduces M2 in some tables and no marker in the others; each
\* clade's TMRCA is younger or older than the cutoff.
SnpTrees ==
    {[c \in {"Y1", "Y2"} |->
        IF c = "Y1"
        THEN [tmrca |-> t1, primary |-> {"M1"}, extra |-> {"M1A"}]
        ELSE [tmrca |-> t2, primary |-> p2, extra |-> {}]] :
     t1 \in {3000, 4000}, t2 \in {3000, 4000}, p2 \in {{}, {"M2"}}}

\* The SNPs tables of the model: absent, or a map of alternate names to
\* standard names.
SnpsTables ==
    {[exists |-> FALSE, names |-> <<>>],
     [exists |-> TRUE, names |-> <<>>],
     [exists |-> TRUE, names |-> ("M1A" :> "M1")],
     [exists |-> TRUE, names |-> ("M1A" :> "M1") @@ ("M2" :> "M1")]}

\* The sum of f over the columns, NaN skipped (DataFrame.sum(axis = 1)).
RECURSIVE SumRow(_, _)
SumRow(cols, f) ==
    IF cols = <<>> THEN 0
    ELSE fillna(f[Head(cols)], 0) + SumRow(Tail(cols), f)

\* The number of columns whose value is not NaN (DataFrame.count(axis = 1)).
CountRow(cols, f) == Cardinality({i \in 1..Len(cols) : f[cols[i]] # NaN})

\* A mutant: the extra SNPs of a clade are left out.
get_relevant_snps_primary(tree, max_age) ==
    UNION {tree[c].primary :
           c \in {d \in DOMAIN tree : tree[d].tmrca <= max_age}}

get_relevant_snps(tree, max_age) ==
    UNION {tree[c].primary \cup tree[c].extra :
           c \in {d \in DOMAIN tree : tree[d].tmrca <= max_age}}

\* analyze, lines 308-309: the columns left once the irrelevant ones are
\* dropped.
DropIrrelevant(cols, relevant_snps) ==
    LET irrelevant_snps == Range(cols) \ relevant_snps
    IN  SelectSeq(cols, LAMBDA c : c \notin irrelevant_snps)

get_standard_snp_name(snp) ==
    IF snp \in DOMAIN snps_df.names THEN snps_df.names[snp] ELSE snp

\* A mutant: the first column of a standard name is kept and the later ones
\* are left out of it.
RECURSIVE MergeEquivalentKeepFirst(_, _, _, _, _)
MergeEquivalentKeepFirst(cols, row, i, keys, new_cols) ==
    IF i > Len(cols) THEN [keys |-> keys, row |-> new_cols]
    ELSE LET col     == cols[i]
             new_col == get_standard_snp_name(col)
         IN  IF new_col \in Range(keys)
             THEN MergeEquivalentKeepFirst(cols, row, i + 1, keys, new_cols)
             ELSE MergeEquivalentKeepFirst(cols, row, i + 1, Append(keys, new_col),
                     (new_col :> row[col]) @@ new_cols)

\* analyze, lines 321-326: new_cols after the columns cols[i..] have been
\* visited, as its keys in insertion order and the row's value under each key.
RECURSIVE MergeEquivalent(_, _, _, _, _)
MergeEquivalent(cols, row, i, keys, new_cols) ==
    IF i > Len(cols) THEN [keys |-> keys, row |-> new_cols]
    ELSE LET col     == cols[i]
             new_col == get_standard_snp_name(col)
         IN  IF new_col \in Range(keys)
             THEN MergeEquivalent(cols, row, i + 1, keys,
                     [new_cols EXCEPT ![new_col] = float_or(new_cols[new_col], row[col])])
             ELSE MergeEquivalent(cols, row, i + 1, Append(keys, new_col),
                     (new_col :> row[col]) @@ new_cols)

\* analyze, lines 305-328: a row of kits_snps_df.
KitsSnpsRow(row) ==
    LET cols == DropIrrelevant(SnpColumns, get_relevant_snps(snp_tree, snp_max_age))
    IN  IF snps_df.exists
        THEN MergeEquivalent(cols, row, 1, <<>>, <<>>)
        ELSE [keys |-> cols, row |-> [c \in Range(cols) |-> row[c]]]

\* A mutant: every call that is not negative is listed.
get_snp_list_nonzero(cols, row) == SelectSeq(cols, LAMBDA c : row[c] # 0)

\* get_snp_list: kit_s[kit_s == 1].index, in column order.
get_snp_list(cols, row) == SelectSeq(cols, LAMBDA c : row[c] = 1)

\* The quotient num / num_comp of two counts, kept as the pair of its terms;
\* a pair whose second term is 0 stands for the NaN of 0 / 0.
Frac(num, num_comp) == <<num, num_comp>>

get_shared_snps(self_s, s) ==
    [c \in DOMAIN s |-> float_and(self_s[c], s[c])]

\* A mutant: the untested side is taken where it is tested.
get_assumed_shared_snps_notna(self_s, s) ==
    [c \in DOMAIN s |->
        float_or(float_and(self_s[c], float_notna(s[c])),
                 float_and(float_notna(self_s[c]), s[c]))]

get_assumed_shared_snps(self_s, s) ==
    [c \in DOMAIN s |->
        float_or(float_and(self_s[c], float_isna(s[c])),
                 float_and(float_isna(self_s[c]), s[c]))]

InitSnp ==
    /\ IoIdle
    /\ LineageIdle
    /\ StrIdle
    /\ RunIdle
    /\ snp_tree \in SnpTrees
    /\ snps_df \in SnpsTables
    /\ self_raw \in [Range(SnpColumns) -> Tri]
    /\ kit_raw \in [Range(SnpColumns) -> Tri]
    /\ snp_pc = "start"
    /\ snp_cols = <<>>
    /\ self_kit_s = <<>>
    /\ kit_s = <<>>
    /\ shared_snps = <<>>
    /\ assum_shared_snps = <<>>
    /\ all_shared_snps = <<>>
    /\ snp_res = <<>>

\* analyze: pd.concat(new_cols, axis = 1) of no columns raises ValueError.
SnpAnalyzeFails ==
    /\ snp_pc = "start"
    /\ snps_df.exists
    /\ KitsSnpsRow(self_raw).keys = <<>>
    /\ snp_pc' = "error"
    /\ UNCHANGED <<snp_tree, snps_df, self_raw, kit_raw, snp_cols, self_kit_s,
                   kit_s, shared_snps, assum_shared_snps, all_shared_snps,
                   snp_res>>
    /\ UNCHANGED <<lineageVars, strVars, runVars, ioVars>>

\* analyze: the candidate kit is compared with the reference kit.
SnpAnalyze ==
    /\ snp_pc = "start"
    /\ ~(snps_df.exists /\ KitsSnpsRow(self_raw).keys = <<>>)
    /\ LET cols   == KitsSnpsRow(self_raw).keys
           self_s == KitsSnpsRow(self_raw).row
           s      == KitsSnpsRow(kit_raw).row
           shared == get_shared_snps(self_s, s)
           assum  == get_assumed_shared_snps(self_s, s)
           all    == [c \in DOMAIN s |-> float_or(shared[c], assum[c])]
           num_shared_snps            == SumRow(cols, shared)
           num_comp_shared_snps       == CountRow(cols, shared)
           num_assum_shared_snps      == SumRow(cols, assum)
           num_comp_assum_shared_snps == CountRow(cols, assum)
       IN  /\ snp_cols' = cols
           /\ self_kit_s' = self_s
           /\ kit_s' = s
           /\ shared_snps' = shared
           /\ assum_shared_snps' = assum
           /\ all_shared_snps' = all
           /\ snp_res' =
                [list_shared_snps           |-> get_snp_list(cols, shared),
                 num_shared_snps            |-> num_shared_snps,
                 num_comp_shared_snps       |-> num_comp_shared_snps,
                 frac_shared_snps           |->
                     Frac(num_shared_snps, num_comp_shared_snps),
                 list_assum_shared_snps     |-> get_snp_list(cols, assum),
                 num_assum_shared_snps      |-> num_assum_shared_snps,
                 num_comp_assum_shared_snps |-> num_comp_assum_shared_snps,
                 frac_assum_shared_snps     |->
                     Frac(num_assum_shared_snps, num_comp_assum_shared_snps),
                 list_all_shared_snps       |-> get_snp_list(cols, all),
                 num_all_shared_snps        |-> num_shared_snps + num_assum_shared_snps,
                 num_comp_all_shared_snps   |->
                     num_comp_shared_snps + num_comp_assum_shared_snps,
                 frac_all_shared_snps       |->
                     Frac(num_shared_snps + num_assum_shared_snps,
                          num_comp_shared_snps + num_comp_assum_shared_snps)]
    /\ snp_pc' = "done"
    /\ UNCHANGED <<snp_tree, snps_df, self_raw, kit_raw>>
    /\ UNCHANGED <<lineageVars, strVars, runVars, ioVars>>

NextSnp ==
    \/ SnpAnalyze
    \/ SnpAnalyzeFails

SpecSnp == InitSnp /\ [][NextSnp]_vars

(***************************************************************************)
(* Properties of the tri-state algebra and the SNP comparator.             *)
(***************************************************************************)

\* C8 as stated: OR(unknown, unknown) == unknown. The comparator applies OR to two
\* unknown operands in get_assumed_shared_snps, at a marker that neither the
\* reference nor the candidate has tested: both AND terms are unknown there.
C8_OrUnknownUnknown ==
    snp_pc = "done" =>
        \A c \in Range(snp_cols) :
            LET x == float_and(self_kit_s[c], float_isna(kit_s[c]))
                y == float_and(float_isna(self_kit_s[c]), kit_s[c])
            IN  x = NaN /\ y = NaN => assum_shared_snps[c] = NaN

\* C8 amended: OR(unknown, unknown) == false: at a marker that neither kit
\* has tested the assumed-shared value is 0, and two alias columns that are
\* both unknown merge into a negative call.
C8_OrUnknownUnknownIsFalse ==
    snp_pc = "done" =>
        /\ \A c \in Range(snp_cols) :
              LET x == float_and(self_kit_s[c], float_isna(kit_s[c]))
                  y == float_and(float_isna(self_kit_s[c]), kit_s[c])
              IN  x = NaN /\ y = NaN => assum_shared_snps[c] = 0
        /\ /\ snps_df.exists
           /\ get_standard_snp_name("M1A") = "M1"
           /\ get_standard_snp_name("M2") = "M2"
           /\ {"M1", "M1A"} \subseteq get_relevant_snps(snp_tree, snp_max_age)
           /\ kit_raw["M1"] = NaN /\ kit_raw["M1A"] = NaN
           => kit_s["M1"] = 0

\* C8 witness: neither kit has tested a marker that is compared, and the
\* candidate's two alias columns are both unknown.
C8_Witness ==
    /\ snp_pc = "done"
    /\ \E c \in Range(snp_cols) : self_kit_s[c] = NaN /\ kit_s[c] = NaN
    /\ snps_df.exists
    /\ get_standard_snp_name("M1A") = "M1"
    /\ get_standard_snp_name("M2") = "M2"
    /\ "M1" \in Range(snp_cols)
    /\ kit_raw["M1"] = NaN /\ kit_raw["M1A"] = NaN

\* C9: AND(true, unknown) is unknown, and so differs from AND(true, false),
\* which is false; OR(true, unknown) is true in either order of the operands
\* (in the OR of the two tiers, and in the merge of the alias columns M1 and
\* M1A under the standard name M1).
C9_AndOrUnknown ==
    snp_pc = "done" =>
        /\ \A c \in Range(snp_cols) :
              /\ self_kit_s[c] = 1 /\ kit_s[c] = NaN => shared_snps[c] = NaN
              /\ self_kit_s[c] = 1 /\ kit_s[c] = 0 => shared_snps[c] = 0
              /\ \/ shared_snps[c] = NaN /\ assum_shared_snps[c] = 1
                 \/ shared_snps[c] = 1 /\ assum_shared_snps[c] = NaN
                 => all_shared_snps[c] = 1
        /\ /\ snps_df.exists
           /\ get_standard_snp_name("M1A") = "M1"
           /\ {"M1", "M1A"} \subseteq get_relevant_snps(snp_tree, snp_max_age)
           /\ \/ kit_raw["M1"] = 1 /\ kit_raw["M1A"] = NaN
              \/ kit_raw["M1"] = NaN /\ kit_raw["M1A"] = 1
           => kit_s["M1"] = 1

\* C9 witness: the reference is positive at a marker the candidate has not
\* tested (AND unknown, OR of the tiers true) and at one where the candidate
\* is negative.
C9_Witness ==
    /\ snp_pc = "done"
    /\ \E c \in Range(snp_cols) :
          /\ self_kit_s[c] = 1 /\ kit_s[c] = NaN
          /\ shared_snps[c] = NaN /\ assum_shared_snps[c] = 1
          /\ all_shared_snps[c] = 1
    /\ \E c \in Range(snp_cols) : self_kit_s[c] = 1 /\ kit_s[c] = 0

\* C10: for a candidate with comparedCount > 0, the allSharedSNPs count is
\* the sharedSNPs count plus the assumedSharedSNPs count and is the number of
\* names in the allSharedSNPs list, no marker being in both tiers' lists.
C10_AllSharedCount ==
    snp_pc = "done" /\ snp_res.num_comp_all_shared_snps > 0 =>
        /\ snp_res.num_all_shared_snps
             = snp_res.num_shared_snps + snp_res.num_assum_shared_snps
        /\ snp_res.num_all_shared_snps = Len(snp_res.list_all_shared_snps)
        /\ Range(snp_res.list_shared_snps)
             \cap Range(snp_res.list_assum_shared_snps) = {}

\* C10 witness: a candidate with a shared and an assumed shared marker.
C10_Witness ==
    /\ snp_pc = "done"
    /\ snp_res.num_comp_all_shared_snps > 0
    /\ Len(snp_res.list_shared_snps) >= 1
    /\ Len(snp_res.list_assum_shared_snps) >= 1

\* C11: a marker is listed as shared iff the reference's call R and the
\* candidate's call K are both positive; it is listed as assumed shared iff
\* one of them is positive and the other unknown; a pair of a negative and an
\* unknown call, or of two unknown calls, is in neither list; the list of all
\* shared markers is the union of the two. On reference {1, 0, unknown} and
\* candidate {1, unknown, 1} over three markers the lists are the first
\* marker, the third marker, and both.
C11_SharedTiers ==
    snp_pc = "done" =>
        /\ \A c \in Range(snp_cols) :
              LET R == self_kit_s[c]
                  K == kit_s[c]
                  in_shared == c \in Range(snp_res.list_shared_snps)
                  in_assum  == c \in Range(snp_res.list_assum_shared_snps)
                  in_all    == c \in Range(snp_res.list_all_shared_snps)
              IN  /\ in_shared <=> R = 1 /\ K = 1
                  /\ in_assum <=> \/ R = 1 /\ K = NaN
                                  \/ R = NaN /\ K = 1
                  /\ \/ R = 0 /\ K = NaN
                     \/ R = NaN /\ K = 0
                     \/ R = NaN /\ K = NaN
                     => ~in_shared /\ ~in_assum
                  /\ in_all <=> in_shared \/ in_assum
        /\ /\ snp_cols = SnpColumns
           /\ self_raw = [c \in Range(SnpColumns) |->
                            IF c = "M1" THEN 1 ELSE IF c = "M1A" THEN 0 ELSE NaN]
           /\ kit_raw = [c \in Range(SnpColumns) |->
                            IF c = "M1" THEN 1 ELSE IF c = "M1A" THEN NaN ELSE 1]
           => /\ snp_res.list_shared_snps = <<"M1">>
              /\ snp_res.list_assum_shared_snps = <<"M2">>
              /\ snp_res.list_all_shared_snps = <<"M1", "M2">>

\* C11 witness: the three markers are compared as they stand, the reference
\* calling them 1, 0, unknown and the candidate 1, unknown, 1.
C11_Witness ==
    /\ snp_pc = "done"
    /\ snp_cols = SnpColumns
    /\ self_kit_s["M1"] = 1 /\ self_kit_s["M1A"] = 0 /\ self_kit_s["M2"] = NaN
    /\ kit_s["M1"] = 1 /\ kit_s["M1A"] = NaN /\ kit_s["M2"] = 1
    /\ snp_res.list_assum_shared_snps = <<"M2">>

\* C12: in each of the three tiers the compared count is the number of
\* markers at which the tier's combinator is not unknown, and the fraction is
\* match count / compared count; so the compared count of the all-shared tier
\* is at most the number of markers compared.
C12_ComparedCounts ==
    snp_pc = "done" =>
        /\ snp_res.num_comp_shared_snps = CountRow(snp_cols, shared_snps)
        /\ snp_res.num_comp_assum_shared_snps
               = CountRow(snp_cols, assum_shared_snps)
        /\ snp_res.num_comp_all_shared_snps
               = CountRow(snp_cols, all_shared_snps)
        /\ snp_res.frac_shared_snps
               = <<Len(snp_res.list_shared_snps),
                   CountRow(snp_cols, shared_snps)>>
        /\ snp_res.frac_assum_shared_snps
               = <<Len(snp_res.list_assum_shared_snps),
                   CountRow(snp_cols, assum_shared_snps)>>
        /\ snp_res.frac_all_shared_snps
               = <<Len(snp_res.list_all_shared_snps),
                   CountRow(snp_cols, all_shared_snps)>>
        /\ snp_res.num_comp_all_shared_snps <= Len(snp_cols)

\* The columns of the kit table that are left once the irrelevant ones are
\* dropped, and those of them that stand for the standard name n.
KeptColumns ==
    DropIrrelevant(SnpColumns, get_relevant_snps(snp_tree, snp_max_age))

AliasColumns(n) ==
    SelectSeq(KeptColumns, LAMBDA c : get_standard_snp_name(c) = n)

\* The OR of the calls of a kit's row at the columns cs: the call itself for
\* one column, and for more columns 1 if one of the calls is 1 and else 0.
OrOfColumns(cs, row) ==
    IF Len(cs) = 1 THEN row[cs[1]]
    ELSE IF \E i \in 1..Len(cs) : row[cs[i]] = 1 THEN 1 ELSE 0

C28_MergeKeepsUnknown ==
    snp_pc = "done" /\ snps_df.exists =>
        \A n \in Range(snp_cols) :
            LET cs == AliasColumns(n)
            IN  /\ kit_s[n] = NaN <=> \A i \in 1..Len(cs) : kit_raw[cs[i]] = NaN
                /\ self_kit_s[n] = NaN
                       <=> \A i \in 1..Len(cs) : self_raw[cs[i]] = NaN

\* The markers that a clade of the tree introduces, as a primary or an extra
\* SNP, whose TMRCA is above the cutoff, and those of a clade whose TMRCA is
\* at most the cutoff.
IntroducedAboveCutoff ==
    {c \in Range(SnpColumns) :
        \E d \in DOMAIN snp_tree :
            /\ snp_tree[d].tmrca > snp_max_age
            /\ c \in snp_tree[d].primary \cup snp_tree[d].extra}

IntroducedWithinCutoff ==
    {c \in Range(SnpColumns) :
        \E d \in DOMAIN snp_tree :
            /\ snp_tree[d].tmrca <= snp_max_age
            /\ c \in snp_tree[d].primary \cup snp_tree[d].extra}

\* C14 as stated: the age cutoff drops exactly the markers introduced by a
\* clade older than the cutoff, so that every other marker of the kit table
\* is compared (the SNPs table being absent, the columns keep their names).
C14_DropsOlderOnly ==
    snp_pc = "done" /\ ~snps_df.exists =>
        Range(snp_cols) = Range(SnpColumns) \ IntroducedAboveCutoff

\* C14 amended: the age cutoff keeps exactly the markers introduced by a clade
\* of the tree whose TMRCA is at most the cutoff; every other marker of the
\* kit table is dropped, a marker that no clade of the tree introduces
\* included.
C14_KeepsWithinCutoffOnly ==
    snp_pc = "done" =>
        /\ Range(KeptColumns) = IntroducedWithinCutoff
        /\ ~snps_df.exists => snp_cols = KeptColumns
        /\ snps_df.exists =>
              Range(snp_cols)
                  = {get_standard_snp_name(c) : c \in IntroducedWithinCutoff}

\* C14 witness: no clade of the tree introduces M2, the clade of M1 and M1A is
\* younger than the cutoff, and M2 is not compared.
C14_Witness ==
    /\ snp_pc = "done"
    /\ ~snps_df.exists
    /\ "M2" \notin IntroducedAboveCutoff
    /\ "M2" \notin IntroducedWithinCutoff
    /\ snp_cols = <<"M1", "M1A">>

(***************************************************************************)
(* STR comparator (str_cmd.py, analyze.get_abs_diffs.get_diff). A locus    *)
(* value is None (no call) or <<l>> for a non-empty list l of repeat       *)
(* counts; positions are counted from 1.                                   *)
(***************************************************************************)
\* The repeat counts of the model.
StrRepeats == {0, 14, 15}

StrLists == UNION {[1..k -> StrRepeats] : k \in 1..MaxCopies}

StrValues == {None} \cup {<<l>> : l \in StrLists}

RECURSIVE SumSeq(_)
SumSeq(s) == IF s = <<>> THEN 0 ELSE Head(s) + SumSeq(Tail(s))

\* combinations(range(n), k): the choices of k of the positions 1..n, each in
\* increasing order.
Combinations(n, k) ==
    {SelectSeq([i \in 1..n |-> i], LAMBDA i : i \in S) :
        S \in {T \in SUBSET (1..n) : Cardinality(T) = k}}

\* c comes before d in the order in which the combinations are generated.
LexBefore(c, d) ==
    \E i \in 1..Len(c) : c[i] < d[i] /\ \A j \in 1..(i - 1) : c[j] = d[j]

\* get_comb_diff: x starts at 1000.
NoNeighbour == 1000

\* A mutant: only the left neighbour is looked at.
LeftoverTermLeftOnly(l, i) ==
    LET x0 == NoNeighbour
        x1 == IF i > 1 THEN Min2(x0, Abs(l[i] - l[i - 1])) ELSE x0
    IN  1 + x1

\* A mutant: the term is the distance to the nearer neighbour alone.
LeftoverTermBare(l, i) ==
    LET x0 == NoNeighbour
        x1 == IF i > 1 THEN Min2(x0, Abs(l[i] - l[i - 1])) ELSE x0
        x2 == IF i < Len(l) THEN Min2(x1, Abs(l[i] - l[i + 1])) ELSE x1
    IN  x2

\* get_comb_diff: the term appended for the unpaired position i of list l.
LeftoverTerm(l, i) ==
    LET x0 == NoNeighbour
        x1 == IF i > 1 THEN Min2(x0, Abs(l[i] - l[i - 1])) ELSE x0
        x2 == IF i < Len(l) THEN Min2(x1, Abs(l[i] - l[i + 1])) ELSE x1
    IN  1 + x2

\* get_comb_diff: the terms of the positions of l that are not in used, in
\* increasing position.
LeftoverTerms(l, used) ==
    LET idx == SelectSeq([i \in 1..Len(l) |-> i], LAMBDA i : i \notin used)
    IN  [j \in 1..Len(idx) |-> LeftoverTerm(l, idx[j])]

\* A mutant: the test for a null repeat count is inverted.
get_val_diff_inverted(a, b) == IF a # 0 \/ b # 0 THEN 1 ELSE Abs(a - b)

get_val_diff(a, b) == IF a = 0 \/ b = 0 THEN 1 ELSE Abs(a - b)

\* The list diff of one pair of combinations: the position of a, the position
\* of b and the distance of the two values, for each zipped pair.
CombPairing(a, b, a_comb, b_comb) ==
    [i \in 1..Len(a_comb) |->
        <<a_comb[i], b_comb[i], get_val_diff(a[a_comb[i]], b[b_comb[i]])>>]

get_comb_diff(a, b, diff) ==
    [i \in 1..Len(diff) |-> diff[i][3]]
        \o LeftoverTerms(a, {diff[i][1] : i \in 1..Len(diff)})
        \o LeftoverTerms(b, {diff[i][2] : i \in 1..Len(diff)})

\* The pairs of combinations get_diff generates: a_comb in the outer loop and
\* b_comb in the inner one.
CombPairs(a, b) ==
    LET min_len == Min2(Len(a), Len(b))
    IN  Combinations(Len(a), min_len) \X Combinations(Len(b), min_len)

\* pair p is generated before pair q.
GeneratedBefore(p, q) ==
    \/ LexBefore(p[1], q[1])
    \/ p[1] = q[1] /\ LexBefore(p[2], q[2])

\* A mutant: the key of a pairing is the sum of its pair distances alone.
get_diff_lists_pairs_key(a, b) ==
    LET pairs == CombPairs(a, b)
        key == [p \in pairs |->
                   SumSeq([i \in 1..Len(p[1]) |->
                              CombPairing(a, b, p[1], p[2])[i][3]])]
        best == CHOOSE p \in pairs :
                    \A q \in pairs :
                        \/ key[p] < key[q]
                        \/ key[p] = key[q] /\ (p = q \/ GeneratedBefore(p, q))
    IN  get_comb_diff(a, b, CombPairing(a, b, best[1], best[2]))

\* get_diff, for two lists: min(..., key = ...) returns the first generated
\* pairing of the least key.
get_diff_lists(a, b) ==
    LET pairs == CombPairs(a, b)
        key == [p \in pairs |->
                   SumSeq(get_comb_diff(a, b, CombPairing(a, b, p[1], p[2])))]
        best == CHOOSE p \in pairs :
                    \A q \in pairs :
                        \/ key[p] < key[q]
                        \/ key[p] = key[q] /\ (p = q \/ GeneratedBefore(p, q))
    IN  get_comb_diff(a, b, CombPairing(a, b, best[1], best[2]))

\* A mutant: a missing value is compared as a list without copies, unless
\* both values are missing.
get_diff_one_sided(a, b) ==
    IF a = None /\ b = None THEN <<>>
    ELSE get_diff_lists(IF a = None THEN <<>> ELSE a[1],
                        IF b = None THEN <<>> ELSE b[1])

get_diff(a, b) ==
    IF a = None \/ b = None THEN <<>> ELSE get_diff_lists(a[1], b[1])

InitStr ==
    /\ IoIdle
    /\ LineageIdle
    /\ SnpIdle
    /\ RunIdle
    /\ str_pc = "start"
    /\ str_a \in StrValues
    /\ str_b \in StrValues
    /\ str_diff = <<>>

\* get_abs_diffs: get_diff(a, b) for one locus of the two kits.
GetDiff ==
    /\ str_pc = "start"
    /\ str_diff' = get_diff(str_a, str_b)
    /\ str_pc' = "done"
    /\ UNCHANGED <<str_a, str_b, lineageVars, snpVars, runVars, ioVars>>

NextStr == GetDiff

SpecStr == InitStr /\ [][NextStr]_vars

(***************************************************************************)
(* The analyze commands over a kit table (snp_cmd.py and str_cmd.py,       *)
(* analyze): the reference kit is looked up, the kits are filtered by      *)
(* lineage, every kit left is compared with the reference kit and the      *)
(* result rows are sorted and written.                                     *)
(***************************************************************************)
\* The index of the kit table, in row order, and an id without a row.
RunKits == <<"K1", "K2", "K3">>
NoKit == "K0"
RunKitIds == Range(RunKits) \cup {NoKit}

\* The first columns of a kit table; the marker columns follow them.
MetadataColumns == <<"Group", "Paternal Ancestor Name", "Country", "Haplogroup">>

\* The locus columns of the STR kit table.
RunLoci == <<"L1", "L2">>

\* The tree table of the runs, as the lineage filter reads it (the parent of
\* each haplogroup) and as the age cutoff reads it (every marker is younger
\* than the cutoff).
RunTree ==
    [h \in HG |-> IF h = "A" THEN Null ELSE IF h = "D" THEN "C" ELSE "A"]

RunSnpTree ==
    [c \in {"Y1", "Y2"} |->
        IF c = "Y1"
        THEN [tmrca |-> 3000, primary |-> {"M1"}, extra |-> {"M1A"}]
        ELSE [tmrca |-> 3000, primary |-> {"M2"}, extra |-> {}]]

\* The rows of marker columns of the kits: SNP calls, or STR locus values
\* (one of the STR rows holds four copies at both loci).
RunSnpRows ==
    {r \in [Range(SnpColumns) -> Tri] : r["M1A"] = NaN /\ r["M2"] # 0}

RunStrRows ==
    {r \in [Range(RunLoci) -> {None, <<(<<14>>)>>, <<(<<14, 15>>)>>}] :
        r["L2"] # <<(<<14, 15>>)>>}
    \cup {[l \in Range(RunLoci) |-> <<(<<14, 15, 15, 15>>)>>]}

\* The kit tables of the runs. The columns are functions over RunKitIds: the
\* rows of the table are those of the ids of index, and the value at NoKit is
\* a row of missing values that belongs to no kit.
RunKitTables(cmd) ==
    {[index |-> RunKits, Haplogroup |-> hg, data |-> d] :
        hg \in {f \in [RunKitIds -> HG \cup {Null}] :
                   /\ f[NoKit] = Null
                   /\ \/ f["K1"] = "B" /\ f["K2"] \in {"B", "C"} /\ f["K3"] = "D"
                      \/ \A k \in Range(RunKits) : f[k] = Null},
        d \in IF cmd = "snp"
              THEN {f \in [RunKitIds -> RunSnpRows \cup {[c \in Range(SnpColumns) |-> NaN]}] :
                       /\ f[NoKit] = [c \in Range(SnpColumns) |-> NaN]
                       /\ \A k \in Range(RunKits) : f[k] \in RunSnpRows}
              ELSE {f \in [RunKitIds -> RunStrRows \cup {[l \in Range(RunLoci) |-> None]}] :
                       /\ f[NoKit] = [l \in Range(RunLoci) |-> None]
                       /\ \A k \in Range(RunKits) : f[k] \in RunStrRows}}

\* get_haplogroup_lineage, as the list it returns on a tree without a cycle.
RECURSIVE get_haplogroup_lineage(_, _, _)
get_haplogroup_lineage(tree, cur, acc) ==
    IF cur = Null THEN acc
    ELSE IF cur \in DOMAIN tree
         THEN get_haplogroup_lineage(tree, tree[cur], Append(acc, cur))
         ELSE Append(acc, cur)

\* A mutant: a lookup by an id that is not in the index raises nothing.
RaisesKeyErrorNever(index, kit) == FALSE

\* df.loc[kit] raises KeyError: kit is not in the index.
RaisesKeyError(index, kit) == kit \notin Range(index)

\* analyze: the index of kits_df once the kits are filtered by lineage.
MatchingKits(df, a_lineage) ==
    SelectSeq(df.index,
        LAMBDA k : kit_matches_lineage(a_lineage,
                       get_haplogroup_lineage(tree_df, df.Haplogroup[k], <<>>),
                       haplogroup, haplogroup_max_diff))

\* The keys are in the order of sort_values, a missing key after the others.
InOrder(keys, ascending) ==
    \A i, j \in 1..Len(keys) :
        i < j => \/ keys[j] = NaN
                 \/ /\ keys[i] # NaN
                    /\ IF ascending THEN keys[i] <= keys[j]
                                    ELSE keys[i] >= keys[j]

\* A mutant: the rows are sorted in ascending order whatever is asked.
sort_values_ascending(rows, by, ascending) ==
    {[i \in 1..Len(rows) |-> rows[p[i]]] :
        p \in {q \in Permutations(1..Len(rows)) :
                  InOrder([i \in 1..Len(rows) |-> rows[q[i]][by]], TRUE)}}

\* DataFrame.sort_values(by, ascending): the orders of the rows that the
\* sort may produce (rows of equal keys in either order).
sort_values(rows, by, ascending) ==
    {[i \in 1..Len(rows) |-> rows[p[i]]] :
        p \in {q \in Permutations(1..Len(rows)) :
                  InOrder([i \in 1..Len(rows) |-> rows[q[i]][by]], ascending)}}

\* snp_cmd.py, analyze: the row of results_df of kit k.
SnpResultRow(k, self_row, row) ==
    LET cols   == KitsSnpsRow(self_row).keys
        self_s == KitsSnpsRow(self_row).row
        s      == KitsSnpsRow(row).row
        shared == get_shared_snps(self_s, s)
        assum  == get_assumed_shared_snps(self_s, s)
    IN  [kit |-> k,
         num_all_shared_snps |-> SumRow(cols, shared) + SumRow(cols, assum)]

\* more_itertools.flatten
RECURSIVE flatten(_)
flatten(ls) == IF ls = <<>> THEN <<>> ELSE Head(ls) \o flatten(Tail(ls))

\* str_cmd.py, analyze.get_abs_diffs: the terms of all loci of a kit.
get_abs_diffs(self_kit_row, kit_row) ==
    flatten([i \in 1..Len(RunLoci) |->
                get_diff(self_kit_row[RunLoci[i]], kit_row[RunLoci[i]])])

\* A real number is held in units of 1 / Scale, rounded down.
Scale == 1000

\* get_confidence_interval(95 / 100) = 1.95996..., in units of 1 / Scale.
ZScore == 1960

\* The greatest r of lo..hi with r * r <= n.
RECURSIVE ISqrtBetween(_, _, _)
ISqrtBetween(n, lo, hi) ==
    IF lo >= hi THEN lo
    ELSE LET mid == (lo + hi + 1) \div 2
         IN  IF mid * mid <= n THEN ISqrtBetween(n, mid, hi)
             ELSE ISqrtBetween(n, lo, mid - 1)

ISqrt(n) == ISqrtBetween(n, 0, Min2(n, 46340))

\* str_cmd.py, analyze, lines 301-312: "Relative Distance (max)" of a kit
\* whose terms are diffs, in units of 1 / Scale. The mean of no term, the
\* standard deviation of fewer than two terms and the square root of a
\* negative number are NaN.
rel_dist_max(diffs, total) ==
    LET num_comps == Len(diffs)
        sum       == SumSeq(diffs)
        sum_sq    == SumSeq([i \in 1..Len(diffs) |-> diffs[i] * diffs[i]])
    IN  IF num_comps < 2 \/ total - num_comps < 0 THEN NaN
        ELSE LET rel_dist == (Scale * sum) \div num_comps
                 \* std ^ 2 / num_comps * (total - num_comps) / (total - 1)
                 var_num == (num_comps * sum_sq - sum * sum) * (total - num_comps)
                 var_den == num_comps * num_comps * (num_comps - 1) * (total - 1)
                 rel_dist_std_err == ISqrt((Scale * Scale * var_num) \div var_den)
                 rel_dist_ci == (ZScore * rel_dist_std_err) \div Scale
             IN  rel_dist + rel_dist_ci

\* str_cmd.py, analyze: the row of results_df of kit k.
StrResultRow(k, self_row, row, total) ==
    LET diffs == get_abs_diffs(self_row, row)
    IN  [kit |-> k,
         num_comps |-> Len(diffs),
         abs_dist |-> SumSeq(diffs),
         fpc |-> <<total - Len(diffs), total - 1>>,
         rel_dist_max |-> rel_dist_max(diffs, total)]

InitRun ==
    /\ IoIdle
    /\ StrIdle
    /\ tree_missing \in BOOLEAN
    /\ snp_tree = RunSnpTree
    /\ snps_df = [exists |-> FALSE, names |-> <<>>]
    /\ self_raw = <<>>
    /\ kit_raw = <<>>
    /\ snp_pc = "idle"
    /\ snp_cols = <<>>
    /\ self_kit_s = <<>>
    /\ kit_s = <<>>
    /\ shared_snps = <<>>
    /\ assum_shared_snps = <<>>
    /\ all_shared_snps = <<>>
    /\ snp_res = <<>>
    /\ tree_df = IF tree_missing THEN <<>> ELSE RunTree
    /\ self_kit_hg = Null
    /\ kit_hg = Null
    /\ pc = "idle"
    /\ cur_hg = Null
    /\ lineage = <<>>
    /\ broke = FALSE
    /\ self_kit_lineage = <<>>
    /\ b_lineage = <<>>
    /\ haplogroup \in {None, <<"C">>}
    /\ haplogroup_max_diff \in {None, <<0>>}
    /\ common_lineage = <<>>
    /\ matches = FALSE
    /\ run_cmd \in {"snp", "str"}
    /\ kits_df \in RunKitTables(run_cmd)
    /\ self_kit \in RunKitIds
    /\ run_pc = "start"
    /\ run_error = None
    /\ total_num_loci = None
    /\ results_df = <<>>
    /\ output_file = None

\* analyze: kits_df.loc[self_kit, "Haplogroup"] raises a KeyError that no
\* handler catches (snp_cmd.py:291, str_cmd.py:226).
RunKeyError ==
    /\ run_pc = "start"
    /\ RaisesKeyError(kits_df.index, self_kit)
    /\ run_pc' = "error"
    /\ run_error' = <<"KeyError">>
    /\ UNCHANGED <<run_cmd, tree_missing, kits_df, self_kit, total_num_loci,
                   results_df, output_file>>
    /\ UNCHANGED <<lineageVars, snpVars, strVars, ioVars>>

\* Without a tree table the run fails once the reference kit has been looked
\* up: get_haplogroup_lineage applies .loc to None for a kit that has a
\* haplogroup (AttributeError, db.py:77), and the SNP analysis reads
\* relevant_snps, which is assigned only when there is a tree table
\* (NameError, snp_cmd.py:308).
TreeMissingFails ==
    /\ tree_missing
    /\ \/ \E k \in Range(kits_df.index) : kits_df.Haplogroup[k] # Null
       \/ run_cmd = "snp"

RunTreeMissing ==
    /\ run_pc = "start"
    /\ ~RaisesKeyError(kits_df.index, self_kit)
    /\ TreeMissingFails
    /\ run_pc' = "error"
    /\ run_error' =
          IF \E k \in Range(kits_df.index) : kits_df.Haplogroup[k] # Null
          THEN <<"AttributeError">> ELSE <<"NameError">>
    /\ UNCHANGED <<run_cmd, tree_missing, kits_df, self_kit, total_num_loci,
                   results_df, output_file>>
    /\ UNCHANGED <<lineageVars, snpVars, strVars, ioVars>>

\* analyze: the lineage filter has dropped the reference kit, the lookup of
\* its row raises KeyError and the handler exits (snp_cmd.py:332-338,
\* str_cmd.py:234-240).
RunKitNotFound ==
    /\ run_pc = "start"
    /\ ~RaisesKeyError(kits_df.index, self_kit)
    /\ ~TreeMissingFails
    /\ LET a_lineage ==
               get_haplogroup_lineage(tree_df, kits_df.Haplogroup[self_kit], <<>>)
       IN  RaisesKeyError(MatchingKits(kits_df, a_lineage), self_kit)
    /\ run_pc' = "error"
    /\ run_error' = <<"Exit">>
    /\ UNCHANGED <<run_cmd, tree_missing, kits_df, self_kit, total_num_loci,
                   results_df, output_file>>
    /\ UNCHANGED <<lineageVars, snpVars, strVars, ioVars>>

\* analyze: the kits that pass the filter are compared with the reference
\* kit, and the result rows are sorted and written to output_file.
RunAnalyze ==
    /\ run_pc = "start"
    /\ ~RaisesKeyError(kits_df.index, self_kit)
    /\ ~TreeMissingFails
    /\ LET a_lineage ==
               get_haplogroup_lineage(tree_df, kits_df.Haplogroup[self_kit], <<>>)
           matching == MatchingKits(kits_df, a_lineage)
           others   == SelectSeq(matching, LAMBDA k : k # self_kit)
           shape1   == Len(MetadataColumns) + Len(RunLoci)
           rows ==
               [i \in 1..Len(others) |->
                   IF run_cmd = "snp"
                   THEN SnpResultRow(others[i], kits_df.data[self_kit],
                                     kits_df.data[others[i]])
                   ELSE StrResultRow(others[i], kits_df.data[self_kit],
                                     kits_df.data[others[i]], shape1)]
       IN  /\ ~RaisesKeyError(matching, self_kit)
           /\ total_num_loci' = IF run_cmd = "str" THEN <<shape1>> ELSE None
           /\ results_df' = rows
           /\ \E sorted \in IF run_cmd = "snp"
                            THEN sort_values(rows, "num_all_shared_snps", FALSE)
                            ELSE sort_values(rows, "rel_dist_max", TRUE) :
                 output_file' = <<sorted>>
    /\ run_pc' = "done"
    /\ UNCHANGED <<run_cmd, tree_missing, kits_df, self_kit, run_error>>
    /\ UNCHANGED <<lineageVars, snpVars, strVars, ioVars>>

NextRun ==
    \/ RunKeyError
    \/ RunTreeMissing
    \/ RunKitNotFound
    \/ RunAnalyze

SpecRun == InitRun /\ [][NextRun]_vars

(***************************************************************************)
(* merge_db (db.py): a stored table is a list of rows, each with the key   *)
(* of the index (a kit number, a haplogroup or an SNP name) and the value  *)
(* of its columns.  The index of a data frame may hold a key twice: the    *)
(* SNPs table is built from every SNP name of every clade of the tree,     *)
(* a fetched kit table from the rows of every page.                        *)
(***************************************************************************)
MaxMerges == 3
MaxRows == 2
MergeKeys == {"K1", "K2", "K3"}
MergeValues == {1, 2}
MergeRows == [key : MergeKeys, val : MergeValues]
MergeTables == UNION {[1..n -> MergeRows] : n \in 0..MaxRows}

\* df[~df.index.duplicated(keep = "last")]: of the rows with one key, the last
\* one stays, at its place.
RECURSIVE DropDuplicatedKeepLast(_)
DropDuplicatedKeepLast(df) ==
    IF df = <<>> THEN <<>>
    ELSE IF \E j \in 2..Len(df) : df[j].key = df[1].key
         THEN DropDuplicatedKeepLast(Tail(df))
         ELSE <<df[1]>> \o DropDuplicatedKeepLast(Tail(df))

\* The table merge_db stores: new_df as it is when there is no file, else the
\* concatenation of the stored table and new_df without the earlier rows of a
\* repeated key.
merge_db(df, new_df) ==
    IF df = None THEN new_df
    ELSE DropDuplicatedKeepLast(df[1] \o new_df)

\* The rows of df with the key.
RowsOf(df, key) == {i \in 1..Len(df) : df[i].key = key}

\* Per key, the last row of the key in new_df, else what was recorded before.
LatestRows(before, new_df) ==
    [key \in MergeKeys |->
        IF RowsOf(new_df, key) = {} THEN before[key]
        ELSE <<new_df[CHOOSE i \in RowsOf(new_df, key) :
                          \A j \in RowsOf(new_df, key) : j <= i]>>]

InitMerge ==
    /\ LineageIdle
    /\ SnpIdle
    /\ StrIdle
    /\ RunIdle
    /\ LoginIdle
    /\ FetchIdle
    /\ IngestIdle
    /\ db_file = None
    /\ merge_calls = 0
    /\ merged_rows = [key \in MergeKeys |-> None]

MergeDb ==
    /\ merge_calls < MaxMerges
    /\ \E new_df \in MergeTables :
          /\ db_file' = <<merge_db(db_file, new_df)>>
          /\ merged_rows' = LatestRows(merged_rows, new_df)
    /\ merge_calls' = merge_calls + 1
    /\ UNCHANGED <<lineageVars, snpVars, strVars, runVars, loginVars, fetchVars,
                   ingestVars>>

NextMerge == MergeDb

SpecMerge == InitMerge /\ [][NextMerge]_vars

(***************************************************************************)
(* The login commands (ftdna_cmd.py).  The login cache is a shelf, a       *)
(* mapping from the keys that are set to their values.  ftdna_signin       *)
(* returns None when the error message of the sign-in page shows up, and   *)
(* the cookies of the page, a list that may be empty, when the navigation  *)
(* completes.                                                              *)
(***************************************************************************)
MaxLoginCalls == 4
Usernames == {"u1", "u2"}
CookieLists == {<<>>, <<"c1">>}
SigninResults == {None} \cup {<<c>> : c \in CookieLists}

\* shelf[key] = value
ShelfSet(sh, key, value) ==
    [k \in DOMAIN sh \cup {key} |-> IF k = key THEN value ELSE sh[k]]

\* if key in shelf: del shelf[key]
ShelfDel(sh, key) == [k \in DOMAIN sh \ {key} |-> sh[k]]

EmptyShelf == [k \in {} |-> None]

InitLogin ==
    /\ LineageIdle
    /\ SnpIdle
    /\ StrIdle
    /\ RunIdle
    /\ MergeIdle
    /\ FetchIdle
    /\ IngestIdle
    /\ shelf = EmptyShelf
    /\ login_cmd = "idle"
    /\ login_calls = 0
    /\ signin_cookies = None
    /\ session_echo = None

\* signin: the three keys are set unless ftdna_signin returned None.
signin ==
    /\ login_calls < MaxLoginCalls
    /\ \E username \in Usernames, cookies \in SigninResults :
          /\ signin_cookies' = cookies
          /\ shelf' =
                IF cookies # None
                THEN ShelfSet(ShelfSet(ShelfSet(shelf, "username", username),
                                       "datetime", login_calls + 1),
                              "cookies", cookies[1])
                ELSE shelf
    /\ login_cmd' = "signin"
    /\ login_calls' = login_calls + 1
    /\ UNCHANGED session_echo
    /\ UNCHANGED <<lineageVars, snpVars, strVars, runVars, mergeVars, fetchVars,
                   ingestVars>>

\* signout: each of the three keys is deleted when it is set.
signout ==
    /\ login_calls < MaxLoginCalls
    /\ shelf' = ShelfDel(ShelfDel(ShelfDel(shelf, "username"), "datetime"),
                         "cookies")
    /\ login_cmd' = "signout"
    /\ login_calls' = login_calls + 1
    /\ UNCHANGED <<signin_cookies, session_echo>>
    /\ UNCHANGED <<lineageVars, snpVars, strVars, runVars, mergeVars, fetchVars,
                   ingestVars>>

\* session: the report depends on the key "cookies" alone.
session ==
    /\ login_calls < MaxLoginCalls
    /\ session_echo' =
          IF "cookies" \in DOMAIN shelf
          THEN <<"Signed in", shelf["username"], shelf["datetime"]>>
          ELSE <<"Not signed in">>
    /\ login_cmd' = "session"
    /\ login_calls' = login_calls + 1
    /\ UNCHANGED <<shelf, signin_cookies>>
    /\ UNCHANGED <<lineageVars, snpVars, strVars, runVars, mergeVars, fetchVars,
                   ingestVars>>

NextLogin ==
    \/ signin
    \/ signout
    \/ session

SpecLogin == InitLogin /\ [][NextLogin]_vars

(***************************************************************************)
(* ftdna_fetch_kits (ftdna.py).  The server answers every request with a   *)
(* page of its choice: an HTTP error (or the redirect to the home page),   *)
(* a page without results, a page of an unknown layout, or a grid page     *)
(* with the page size it reports, its page number, the number of pages and *)
(* the table, a header row followed by kit rows.                           *)
(***************************************************************************)
MaxPage == 3
MaxFetched == 4
PageSizes == {25, 250}
PageSizeOptions == {None, <<250>>}
PageTables == {<<"header", "kit1">>, <<"header", "kit2">>}

NoGridKinds == {"http_error", "no_results", "hidden", "unknown_layout"}

NoGridPage(kind) ==
    [kind |-> kind, size |-> 0, page |-> 0, max_page |-> 0, table |-> <<>>]

GridPages ==
    [kind : {"grid"}, size : PageSizes, page : 1..MaxPage - 1,
     max_page : 1..MaxPage, table : PageTables]

Responses == {NoGridPage(kind) : kind \in NoGridKinds} \cup GridPages

\* The page-size negotiation is over: prelim is False, no page size is asked
\* for, or the page reports the page size asked for.
Settled ==
    IF prelim /\ page_size # None THEN response.size = page_size[1] ELSE TRUE

\* page_df.equals(prev_page_df), prev_page_df being page_df as the iteration
\* before has left it.
SameAsLast == page_df # None /\ response.table = page_df[1]

\* page_df after the header row of a page other than the first is dropped
\* in place.
DropHeader(r) == IF r.page > 1 THEN Tail(r.table) ELSE r.table

\* kits_df after page_df is added to it.
Concat(df, rows) == IF df = None THEN <<rows>> ELSE <<df[1] \o rows>>

\* A page that ends the loop once the rows are fetched from it.
Ending(r, rows) ==
    \/ r.kind # "grid"
    \/ r.table = rows
    \/ r.page = r.max_page

\* The pages the server may send: further pages come only while fewer than
\* MaxFetched rows have been fetched.
Served(df, rows) ==
    {r \in Responses :
        \/ Ending(r, rows)
        \/ df = None
        \/ Len(df[1]) < MaxFetched}

InitFetch ==
    /\ LineageIdle
    /\ SnpIdle
    /\ StrIdle
    /\ RunIdle
    /\ MergeIdle
    /\ LoginIdle
    /\ IngestIdle
    /\ fetch_pc = "open"
    /\ page_size \in PageSizeOptions
    /\ prelim = TRUE
    /\ response = NoGridPage("none")
    /\ page_df = None
    /\ last_table = None
    /\ fetch_kits_df = None
    /\ fetch_error = None

\* browser.open(url): NOT_FOUND unless the response is ok.
FetchOpen ==
    /\ fetch_pc = "open"
    /\ \E r \in Responses :
          /\ response' = r
          /\ IF r.kind = "http_error"
             THEN fetch_pc' = "raised" /\ fetch_error' = <<"NOT_FOUND">>
             ELSE fetch_pc' = "loop" /\ UNCHANGED fetch_error
    /\ UNCHANGED <<page_size, prelim, page_df, last_table, fetch_kits_df>>
    /\ UNCHANGED <<lineageVars, snpVars, strVars, runVars, mergeVars, loginVars,
                   ingestVars>>

\* The page has no results, hides them or has no form, grid or table.
FetchRaise ==
    /\ fetch_pc = "loop"
    /\ response.kind # "grid"
    /\ fetch_pc' = "raised"
    /\ fetch_error' =
          <<CASE response.kind = "no_results" -> "RESULTS_UNAVAILABLE"
              [] response.kind = "hidden" -> "RESULTS_HIDDEN"
              [] OTHER -> "UNKNOWN_PAGE_LAYOUT">>
    /\ UNCHANGED <<page_size, prelim, response, page_df, last_table,
                   fetch_kits_df>>
    /\ UNCHANGED <<lineageVars, snpVars, strVars, runVars, mergeVars, loginVars,
                   ingestVars>>

\* The page reports another page size than the one asked for: the page size
\* is submitted and the loop continues with the answer.
FetchUpdatePageSize ==
    /\ fetch_pc = "loop"
    /\ response.kind = "grid"
    /\ ~Settled
    /\ \E r \in Responses :
          /\ response' = r
          /\ IF r.kind = "http_error"
             THEN fetch_pc' = "raised" /\ fetch_error' = <<"HTTPError">>
             ELSE fetch_pc' = "loop" /\ UNCHANGED fetch_error
    /\ UNCHANGED <<page_size, prelim, page_df, last_table, fetch_kits_df>>
    /\ UNCHANGED <<lineageVars, snpVars, strVars, runVars, mergeVars, loginVars,
                   ingestVars>>

\* The table equals the one of the iteration before: break.
FetchSamePage ==
    /\ fetch_pc = "loop"
    /\ response.kind = "grid"
    /\ Settled
    /\ SameAsLast
    /\ prelim' = FALSE
    /\ page_df' = <<response.table>>
    /\ last_table' = <<response.table>>
    /\ fetch_pc' = "returned"
    /\ UNCHANGED <<page_size, response, fetch_kits_df, fetch_error>>
    /\ UNCHANGED <<lineageVars, snpVars, strVars, runVars, mergeVars, loginVars,
                   ingestVars>>

\* The rows of the last page are added: break.
FetchLastPage ==
    /\ fetch_pc = "loop"
    /\ response.kind = "grid"
    /\ Settled
    /\ ~SameAsLast
    /\ response.page = response.max_page
    /\ prelim' = FALSE
    /\ page_df' = <<DropHeader(response)>>
    /\ last_table' = <<response.table>>
    /\ fetch_kits_df' = Concat(fetch_kits_df, DropHeader(response))
    /\ fetch_pc' = "returned"
    /\ UNCHANGED <<page_size, response, fetch_error>>
    /\ UNCHANGED <<lineageVars, snpVars, strVars, runVars, mergeVars, loginVars,
                   ingestVars>>

\* The rows of the page are added and the next page is asked for.
FetchNextPage ==
    /\ fetch_pc = "loop"
    /\ response.kind = "grid"
    /\ Settled
    /\ ~SameAsLast
    /\ response.page # response.max_page
    /\ prelim' = FALSE
    /\ page_df' = <<DropHeader(response)>>
    /\ last_table' = <<response.table>>
    /\ fetch_kits_df' = Concat(fetch_kits_df, DropHeader(response))
    /\ \E r \in Served(Concat(fetch_kits_df, DropHeader(response)),
                        DropHeader(response)) :
          /\ response' = r
          /\ IF r.kind = "http_error"
             THEN fetch_pc' = "raised" /\ fetch_error' = <<"HTTPError">>
             ELSE fetch_pc' = "loop" /\ UNCHANGED fetch_error
    /\ UNCHANGED page_size
    /\ UNCHANGED <<lineageVars, snpVars, strVars, runVars, mergeVars, loginVars,
                   ingestVars>>

NextFetch ==
    \/ FetchOpen
    \/ FetchRaise
    \/ FetchUpdatePageSize
    \/ FetchSamePage
    \/ FetchLastPage
    \/ FetchNextPage

SpecFetch == InitFetch /\ [][NextFetch]_vars

\* ftdna_fetch_kits keeps running until it returns or raises.
SpecFetchFair == SpecFetch /\ WF_vars(NextFetch)

(***************************************************************************)
(* Ingestion of SNP records (snp_cmd.py): add_yfull reads the rows of a    *)
(* YFull file, fetch_ftdna the "Confirmed SNPs" cell of every fetched kit. *)
(* A token is the list of its pieces (characters, or words where the code  *)
(* tells no characters apart); a cell that may be missing is None or       *)
(* <<token>>.  The rows of a YFull file carry one SNP name each.           *)
(***************************************************************************)
MaxYfullRows == 2
MaxFtdnaKits == 2
MaxFtdnaCalls == 2

YfullCallWords ==
    {"no call", "ambiguous", "positive", "negative", "false positive",
     "false negative"}
YfullCalls == {None} \cup {<<<<w>>>> : w \in YfullCallWords \cup {"unknown"}}
YfullReadCounts == {None, <<<<"5", " ", "read">>>>, <<<<"5">>>>, <<<<"*", "*">>>>}
YfullRatings == {None, <<<<"*", "*">>>>, <<<<"*", "?">>>>}
YfullRows == [call : YfullCalls, read_count : YfullReadCounts,
              rating : YfullRatings]

FtdnaCalls == {<<"M", "+">>, <<"M", "-">>, <<"M", "*">>, <<"M">>, <<>>}
FtdnaCells ==
    {None} \cup {<<calls>> : calls \in UNION {[1..n -> FtdnaCalls] :
                                                n \in 1..MaxFtdnaCalls}}

IngestKits == <<"K1", "K2">>
StoredSnpDbs == {None, <<<<[key |-> "K1", val |-> <<1>>]>>>>}

\* get_yfull_df.fix_cols: a read count that starts with "*" is the rating.
fix_cols(row) ==
    IF /\ row.read_count # None
       /\ row.read_count[1] # <<>>
       /\ row.read_count[1][1] = "*"
    THEN [row EXCEPT !.rating = row.read_count, !.read_count = None]
    ELSE row

\* call_to_bool raises ValueError.
CallRaises(call) ==
    call # None /\ call[1] \notin {<<w>> : w \in YfullCallWords}

call_to_bool(call) ==
    IF call = None THEN NaN
    ELSE CASE call[1] = <<"positive">> -> 1
           [] call[1] = <<"negative">> -> 0
           [] OTHER -> NaN

\* str.partition(" "): the pieces before and after the first blank.
RECURSIVE partition(_)
partition(t) ==
    IF t = <<>> THEN <<<<>>, <<>>>>
    ELSE IF Head(t) = " " THEN <<<<>>, Tail(t)>>
    ELSE <<<<Head(t)>> \o partition(Tail(t))[1], partition(Tail(t))[2]>>

\* read_count_to_int raises ValueError.
ReadCountRaises(read_count) ==
    read_count # None /\ partition(read_count[1])[2] # <<"read">>

\* str.strip("*")
RECURSIVE lstrip(_)
lstrip(t) == IF t # <<>> /\ Head(t) = "*" THEN lstrip(Tail(t)) ELSE t

RECURSIVE rstrip(_)
rstrip(t) ==
    IF t # <<>> /\ t[Len(t)] = "*" THEN rstrip(SubSeq(t, 1, Len(t) - 1)) ELSE t

strip(t) == rstrip(lstrip(t))

\* rating_to_int raises ValueError.
RatingRaises(rating) == rating = None \/ strip(rating[1]) # <<>>

ValueError(message, value) ==
    [kind |-> "ValueError", message |-> message, value |-> value]

IndexError == [kind |-> "IndexError", message |-> "string index out of range",
               value |-> None]

First(S) == CHOOSE i \in S : \A j \in S : i <= j

\* get_yfull_df: the columns are converted one after the other (calls, read
\* counts, ratings), each from the first row on; None when nothing raises.
YfullError(rows) ==
    LET fixed == [i \in 1..Len(rows) |-> fix_cols(rows[i])]
        bad_calls == {i \in 1..Len(rows) : CallRaises(fixed[i].call)}
        bad_counts == {i \in 1..Len(rows) : ReadCountRaises(fixed[i].read_count)}
        bad_ratings == {i \in 1..Len(rows) : RatingRaises(fixed[i].rating)}
    IN  IF bad_calls # {}
        THEN <<ValueError("Invalid SNP call", fixed[First(bad_calls)].call)>>
        ELSE IF bad_counts # {}
        THEN <<ValueError("Invalid SNP read count",
                          fixed[First(bad_counts)].read_count)>>
        ELSE IF bad_ratings # {}
        THEN <<ValueError("Invalid SNP rating", fixed[First(bad_ratings)].rating)>>
        ELSE None

\* add_yfull: the row of the kit, the "Call" column of get_yfull_df.
YfullKitDf(kit, rows) ==
    <<[key |-> kit, val |-> [i \in 1..Len(rows) |-> call_to_bool(rows[i].call)]]>>

\* expand_row.get_snp_value: None when nothing raises.
SnpValueError(call) ==
    IF call = <<>> THEN <<IndexError>>
    ELSE IF call[Len(call)] \in {"+", "-", "*"} THEN None
    ELSE <<ValueError("Invalid SNP call", <<call>>)>>

\* expand_row: the first error of the calls of a cell.
CellError(cell) ==
    IF cell = None THEN None
    ELSE LET bad == {i \in 1..Len(cell[1]) : SnpValueError(cell[1][i]) # None}
         IN  IF bad = {} THEN None ELSE SnpValueError(cell[1][First(bad)])

\* fetch_ftdna: the first error of the cells of the fetched kits.
FtdnaError(cells) ==
    LET bad == {i \in 1..Len(cells) : CellError(cells[i]) # None}
    IN  IF bad = {} THEN None ELSE CellError(cells[First(bad)])

\* expand_row: the dictionary of the calls that end in "+" or "-"; of two
\* calls of one SNP the later one stays.
expand_row(cell) ==
    IF cell = None THEN <<>>
    ELSE LET calls == cell[1]
             called == {i \in 1..Len(calls) : calls[i][Len(calls[i])] # "*"}
             name(i) == SubSeq(calls[i], 1, Len(calls[i]) - 1)
         IN  [n \in {name(i) : i \in called} |->
                 LET last == CHOOSE i \in called :
                                 /\ name(i) = n
                                 /\ \A j \in called : name(j) = n => j <= i
                 IN  IF calls[last][Len(calls[last])] = "+" THEN 1 ELSE 0]

\* fetch_ftdna: kits_df, one row per fetched kit.
FtdnaKitsDf(cells) ==
    [i \in 1..Len(cells) |-> [key |-> IngestKits[i], val |-> expand_row(cells[i])]]

InitIngest ==
    /\ LineageIdle
    /\ SnpIdle
    /\ StrIdle
    /\ RunIdle
    /\ MergeIdle
    /\ LoginIdle
    /\ FetchIdle
    /\ ingest_cmd \in {"add_yfull", "fetch_ftdna"}
    /\ ingest_pc = "start"
    /\ IF ingest_cmd = "add_yfull"
       THEN /\ ingest_kit \in Range(IngestKits)
            /\ yfull_rows \in UNION {[1..n -> YfullRows] : n \in 1..MaxYfullRows}
            /\ ftdna_cells = <<>>
       ELSE /\ ingest_kit = Null
            /\ yfull_rows = <<>>
            /\ ftdna_cells \in UNION {[1..n -> FtdnaCells] : n \in 1..MaxFtdnaKits}
    /\ snp_db \in StoredSnpDbs
    /\ ingest_error = None

\* add_yfull: get_yfull_df raises, merge_db is not reached.
add_yfull_raises ==
    /\ ingest_pc = "start"
    /\ ingest_cmd = "add_yfull"
    /\ YfullError(yfull_rows) # None
    /\ ingest_error' = YfullError(yfull_rows)
    /\ ingest_pc' = "error"
    /\ UNCHANGED <<ingest_cmd, ingest_kit, yfull_rows, ftdna_cells, snp_db>>
    /\ UNCHANGED <<lineageVars, snpVars, strVars, runVars, mergeVars, loginVars,
                   fetchVars>>

\* add_yfull: the row of the kit is merged into the database.
add_yfull ==
    /\ ingest_pc = "start"
    /\ ingest_cmd = "add_yfull"
    /\ YfullError(yfull_rows) = None
    /\ snp_db' = <<merge_db(snp_db, YfullKitDf(ingest_kit, yfull_rows))>>
    /\ ingest_pc' = "done"
    /\ UNCHANGED <<ingest_cmd, ingest_kit, yfull_rows, ftdna_cells, ingest_error>>
    /\ UNCHANGED <<lineageVars, snpVars, strVars, runVars, mergeVars, loginVars,
                   fetchVars>>

\* fetch_ftdna: expand_row raises, merge_db is not reached.
fetch_ftdna_raises ==
    /\ ingest_pc = "start"
    /\ ingest_cmd = "fetch_ftdna"
    /\ FtdnaError(ftdna_cells) # None
    /\ ingest_error' = FtdnaError(ftdna_cells)
    /\ ingest_pc' = "error"
    /\ UNCHANGED <<ingest_cmd, ingest_kit, yfull_rows, ftdna_cells, snp_db>>
    /\ UNCHANGED <<lineageVars, snpVars, strVars, runVars, mergeVars, loginVars,
                   fetchVars>>

\* fetch_ftdna: the rows of the fetched kits are merged into the database.
fetch_ftdna ==
    /\ ingest_pc = "start"
    /\ ingest_cmd = "fetch_ftdna"
    /\ FtdnaError(ftdna_cells) = None
    /\ snp_db' = <<merge_db(snp_db, FtdnaKitsDf(ftdna_cells))>>
    /\ ingest_pc' = "done"
    /\ UNCHANGED <<ingest_cmd, ingest_kit, yfull_rows, ftdna_cells, ingest_error>>
    /\ UNCHANGED <<lineageVars, snpVars, strVars, runVars, mergeVars, loginVars,
                   fetchVars>>

NextIngest ==
    \/ add_yfull_raises
    \/ add_yfull
    \/ fetch_ftdna_raises
    \/ fetch_ftdna

SpecIngest == InitIngest /\ [][NextIngest]_vars

(***************************************************************************)
(* Properties of the STR comparator.                                       *)
(***************************************************************************)
\* The permutations of the positions 1..n.
PositionPermutations(n) == Permutations(1..n)

\* The lists that hold the values of l in another order.
PermutationsOf(l) ==
    {[i \in 1..Len(l) |-> l[p[i]]] : p \in PositionPermutations(Len(l))}

\* C1 as stated: for non-empty a and b and every permutation a' of a and b'
\* of b, the total distance computed for (a', b') equals the one computed
\* for (a, b).
C1_PermutationInvariant ==
    str_pc = "done" /\ str_a # None /\ str_b # None =>
        \A a2 \in PermutationsOf(str_a[1]), b2 \in PermutationsOf(str_b[1]) :
            SumSeq(get_diff(<<a2>>, <<b2>>)) = SumSeq(str_diff)

\* C1 amended: for non-empty a and b, the total distance is unchanged when
\* both lists are reversed together and, for lists of equal length, when one
\* same permutation of the positions is applied to both lists.
C1_ReversalInvariant ==
    str_pc = "done" /\ str_a # None /\ str_b # None =>
        LET a == str_a[1]
            b == str_b[1]
        IN  /\ SumSeq(get_diff(<<Reverse(a)>>, <<Reverse(b)>>)) = SumSeq(str_diff)
            /\ Len(a) = Len(b) =>
                  \A p \in PositionPermutations(Len(a)) :
                      SumSeq(get_diff(<<[i \in 1..Len(a) |-> a[p[i]]]>>,
                                      <<[i \in 1..Len(b) |-> b[p[i]]]>>))
                          = SumSeq(str_diff)

\* C1 witness: two lists of different lengths, neither equal to its reverse,
\* have been compared and a copy was left unpaired.
C1_Witness ==
    /\ str_pc = "done" /\ str_a # None /\ str_b # None
    /\ Len(str_a[1]) = 3 /\ Len(str_b[1]) = 2
    /\ str_a[1] # Reverse(str_a[1])
    /\ str_b[1] # Reverse(str_b[1])
    /\ Len(str_diff) = 3

\* The bijective pairings of k positions of a with k positions of b: the
\* one-to-one maps from a set of k positions of a into the positions of b.
Pairings(a, b) ==
    LET k == Min2(Len(a), Len(b))
    IN  UNION {{f \in [S -> 1..Len(b)] : \A i, j \in S : i # j => f[i] # f[j]} :
               S \in {T \in SUBSET (1..Len(a)) : Cardinality(T) = k}}

RECURSIVE SumOver(_, _)
SumOver(S, f) ==
    IF S = {} THEN 0
    ELSE LET i == CHOOSE j \in S : TRUE
         IN  f[i] + SumOver(S \ {i}, f)

\* The total of a pairing: the per-pair distances plus the leftover penalties.
PairingTotal(a, b, f) ==
    SumOver(DOMAIN f, [i \in DOMAIN f |-> get_val_diff(a[i], b[f[i]])])
        + SumSeq(LeftoverTerms(a, DOMAIN f))
        + SumSeq(LeftoverTerms(b, {f[i] : i \in DOMAIN f}))

OrderPreserving(f) == \A i, j \in DOMAIN f : i < j => f[i] < f[j]

C15_NoCallNoTerm ==
    str_pc = "done" /\ (str_a = None \/ str_b = None) =>
        /\ str_diff = <<>>
        /\ Len(str_diff) = 0
        /\ SumSeq(str_diff) = 0

\* C15 witness: the reference has no call at a locus where the candidate has
\* two copies, and the other way round.
C15_Witness ==
    /\ str_pc = "done"
    /\ \/ str_a = None /\ str_b # None /\ Len(str_b[1]) = 2
       \/ str_b = None /\ str_a # None /\ Len(str_a[1]) = 2
    /\ str_diff = <<>>

\* C16: two identical lists without a zero value yield one term per copy and
\* every term is 0.
C16_IdenticalListsZero ==
    str_pc = "done" /\ str_a # None /\ str_a = str_b /\ 0 \notin Range(str_a[1]) =>
        str_diff = [i \in 1..Len(str_a[1]) |-> 0]

\* C16 witness: the two kits hold the same two different copies, neither zero.
C16_Witness ==
    /\ str_pc = "done"
    /\ str_a # None /\ str_a = str_b
    /\ Len(str_a[1]) >= 2
    /\ 0 \notin Range(str_a[1])
    /\ str_a[1][1] # str_a[1][2]
    /\ str_diff = [i \in 1..Len(str_a[1]) |-> 0]

\* The penalty of position i of the list l: 1 plus the least distance of
\* l[i] to a neighbour of it that exists in l.
NeighbourPenalty(l, i) ==
    LET ds == {Abs(l[i] - l[j]) : j \in {i - 1, i + 1} \cap (1..Len(l))}
    IN  1 + (CHOOSE d \in ds : \A e \in ds : d <= e)

\* The positions of l that are not in used, in increasing order.
Unpaired(l, used) ==
    SelectSeq([i \in 1..Len(l) |-> i], LAMBDA i : i \notin used)

\* C17: the distance vector holds one term for every pair of the chosen
\* pairing and, after them, exactly one term for every position of a and of
\* b that the pairing leaves unpaired, equal to 1 + min(|value - left
\* neighbour|, |value - right neighbour|) within the value's own list, a
\* boundary position using its one neighbour; reference [14, 15] against
\* candidate [15] yields the term 0 of the pair (15, 15) and the term 2 of the
\* unpaired 14.
C17_LeftoverPenalty ==
    str_pc = "done" /\ str_a # None /\ str_b # None =>
        LET a == str_a[1]
            b == str_b[1]
            k == Min2(Len(a), Len(b))
        IN  /\ Len(str_diff) = k + (Len(a) - k) + (Len(b) - k)
            /\ \E p \in CombPairs(a, b) :
                  LET free_a == Unpaired(a, Range(p[1]))
                      free_b == Unpaired(b, Range(p[2]))
                  IN  str_diff
                        = [i \in 1..k |-> get_val_diff(a[p[1][i]], b[p[2][i]])]
                          \o [j \in 1..Len(free_a) |-> NeighbourPenalty(a, free_a[j])]
                          \o [j \in 1..Len(free_b) |-> NeighbourPenalty(b, free_b[j])]
            /\ a = <<14, 15>> /\ b = <<15>> => str_diff = <<0, 2>>

\* C17 witness: reference [14, 15] has been compared with candidate [15].
C17_Witness ==
    /\ str_pc = "done"
    /\ str_a = <<(<<14, 15>>)>>
    /\ str_b = <<(<<15>>)>>
    /\ str_diff = <<0, 2>>

(***************************************************************************)
(* Properties of the analyze commands over a kit table.                    *)
(***************************************************************************)

\* C18: in the finite-population correction sqrt((totalLoci - comparedCount)
\* / (totalLoci - 1)) of the STR standard error, totalLoci is the number of
\* locus columns of the kit table, the metadata columns not counted, and
\* comparedCount is the number of distance terms of the candidate kit.
C18_TotalLociCountsLoci ==
    run_pc = "done" /\ run_cmd = "str" =>
        /\ total_num_loci = <<Len(RunLoci)>>
        /\ \A i \in 1..Len(results_df) :
              LET terms == get_abs_diffs(kits_df.data[self_kit],
                                         kits_df.data[results_df[i].kit])
              IN  /\ results_df[i].num_comps = Len(terms)
                  /\ results_df[i].fpc
                         = <<Len(RunLoci) - Len(terms), Len(RunLoci) - 1>>

\* The sort key of an output row.
SortKey(row) ==
    IF run_cmd = "snp" THEN row.num_all_shared_snps ELSE row.rel_dist_max

\* C19 as stated: of any two output rows, in SNP analysis the earlier one has
\* a count of all shared SNPs greater than or equal to the later one's, and
\* in STR analysis the earlier one has an upper bound of the relative
\* distance less than or equal to the later one's.
C19_RowsOrdered ==
    run_pc = "done" =>
        \A i, j \in 1..Len(output_file[1]) :
            i < j =>
                LET x == SortKey(output_file[1][i])
                    y == SortKey(output_file[1][j])
                IN  IF run_cmd = "snp" THEN x >= y
                    ELSE x # NaN /\ y # NaN /\ x <= y

\* C19 amended: in SNP analysis the earlier of two output rows has a count of
\* all shared SNPs greater than or equal to the later one's; in STR analysis
\* a row whose upper bound is undefined (fewer than two distance terms, or
\* more terms than total_num_loci) comes after every row whose upper bound is
\* defined, and of two rows with a defined upper bound the earlier one's is
\* less than or equal to the later one's. The output holds the rows of the
\* results, each once.
C19_RowsOrderedMissingLast ==
    run_pc = "done" =>
        /\ \A i, j \in 1..Len(output_file[1]) :
              i < j =>
                  LET x == SortKey(output_file[1][i])
                      y == SortKey(output_file[1][j])
                  IN  IF run_cmd = "snp" THEN x # NaN /\ y # NaN /\ x >= y
                      ELSE \/ y = NaN
                           \/ x # NaN /\ x <= y
        /\ run_cmd = "str" =>
              \A i \in 1..Len(output_file[1]) :
                  SortKey(output_file[1][i]) = NaN
                      <=> \/ output_file[1][i].num_comps < 2
                          \/ output_file[1][i].num_comps > total_num_loci[1]
        /\ Len(output_file[1]) = Len(results_df)
        /\ Range(output_file[1]) = Range(results_df)

\* C19 witness: in an STR analysis two kits have been compared, the first kit
\* of the table on one term only, so that its upper bound is undefined, and
\* the later kit on three terms; the sort has put the later kit first.
C19_Witness ==
    /\ run_pc = "done"
    /\ run_cmd = "str"
    /\ Len(output_file[1]) = 2
    /\ output_file[1] # results_df
    /\ output_file[1][1].num_comps = 3
    /\ output_file[1][1].rel_dist_max # NaN
    /\ output_file[1][2].num_comps = 1
    /\ output_file[1][2].rel_dist_max = NaN

\* C20: if the reference kit id is not in the index of the kit table, the SNP
\* analysis and the STR analysis end with an error and write no result file,
\* whatever filter options are given.
C20_AbsentKitAborts ==
    self_kit \notin Range(kits_df.index) /\ run_pc # "idle" =>
        /\ output_file = None
        /\ results_df = <<>>
        /\ run_pc \in {"start", "error"}
        /\ run_pc = "start" => ENABLED RunKeyError
        /\ run_pc = "error" => run_error # None

\* C20 witness: a run with both filter options given has ended with an error
\* for a reference kit that is not in the table.
C20_Witness ==
    /\ run_pc = "error"
    /\ self_kit = NoKit
    /\ self_kit \notin Range(kits_df.index)
    /\ haplogroup # None
    /\ haplogroup_max_diff # None
    /\ output_file = None

\* C26: a reference kit that is in the index of the kit table is never
\* reported as not found: whatever the haplogroup and maxDiff options, the
\* lineage filter keeps the reference kit's row and the run goes on to the
\* comparison.
C26_PresentKitFound ==
    self_kit \in Range(kits_df.index) /\ run_pc # "idle" /\ ~tree_missing =>
        /\ run_pc # "error"
        /\ run_error = None

\* C27: for every candidate kit of an STR analysis the number of distance
\* terms is at most the total_num_loci of the finite-population correction,
\* so that the radicand (totalLoci - comparedCount) / (totalLoci - 1) is not
\* negative, also at multi-copy loci.
C27_ComparedAtMostTotal ==
    run_pc = "done" /\ run_cmd = "str" =>
        \A i \in 1..Len(results_df) :
            /\ results_df[i].num_comps <= total_num_loci[1]
            /\ results_df[i].fpc[1] >= 0

\* The position of a row among the result rows, which are in the order of
\* the kit table.
TableOrder(row) == CHOOSE i \in 1..Len(results_df) : results_df[i] = row

\* C23: the ranking is stable: two candidate kits of equal sort key come in
\* the output in the order they have in the kit table.
C23_StableRanking ==
    run_pc = "done" =>
        \A i, j \in 1..Len(output_file[1]) :
            /\ i < j
            /\ SortKey(output_file[1][i]) = SortKey(output_file[1][j])
            => TableOrder(output_file[1][i]) < TableOrder(output_file[1][j])

\* C22: a missing tree table or a missing SNPs table is not fatal: the SNP
\* and the STR analysis of a reference kit that is in the kit table skip the
\* lineage filter, the age cutoff and the canonicalization, run to completion
\* and write a result row for every other kit of the kit table.
C22_MissingTablesNotFatal ==
    /\ run_pc \notin {"idle", "start"}
    /\ self_kit \in Range(kits_df.index)
    /\ tree_missing \/ (~snps_df.exists /\ haplogroup = None)
    => /\ run_pc = "done"
       /\ output_file # None
       /\ tree_missing =>
             {output_file[1][i].kit : i \in 1..Len(output_file[1])}
                 = Range(kits_df.index) \ {self_kit}

\* C24: after any sequence of merge_db calls on a path that had no file, the
\* stored table has exactly one row for every key a merge has supplied and
\* none for the others, and the row of a key is the one supplied by the
\* latest merge that held the key (so that a merge without the key leaves the
\* row as it was).
C24_OneRowPerKey ==
    db_file # None =>
        \A key \in MergeKeys :
            IF merged_rows[key] = None
            THEN RowsOf(db_file[1], key) = {}
            ELSE /\ Cardinality(RowsOf(db_file[1], key)) = 1
                 /\ \A i \in RowsOf(db_file[1], key) :
                        db_file[1][i] = merged_rows[key][1]

\* The same for the merges into a file that exists.
C24_OneRowPerKeyOnceStored ==
    [][db_file # None =>
        \A key \in MergeKeys :
            IF merged_rows'[key] = None
            THEN RowsOf(db_file'[1], key) = {}
            ELSE /\ Cardinality(RowsOf(db_file'[1], key)) = 1
                 /\ \A i \in RowsOf(db_file'[1], key) :
                        db_file'[1][i] = merged_rows'[key][1]]_vars

\* The cache holds the three keys or none of them.
AllOrNoKeys == DOMAIN shelf \in {{}, {"username", "datetime", "cookies"}}

\* ftdna_signin has reported an error: it returned no cookies.
NoCookiesReturned(cookies) == cookies = None \/ cookies[1] = <<>>

\* C30: after any sequence of signin and signout commands the login cache
\* holds all of the keys username, datetime and cookies or none of them; a
\* sign-in that has failed (no cookies returned) leaves the cache as it was;
\* signout leaves it empty; session reports "Signed in" exactly when the key
\* cookies is set.
C30_LoginCache ==
    /\ [](AllOrNoKeys)
    /\ [][/\ login_cmd' = "signin" /\ NoCookiesReturned(signin_cookies')
             => shelf' = shelf
          /\ login_cmd' = "signout" => shelf' = EmptyShelf
          /\ login_cmd' = "session"
             => (session_echo'[1] = "Signed in" <=> "cookies" \in DOMAIN shelf)
         ]_vars

FetchEnded == fetch_pc \in {"returned", "raised"}

\* C29: ftdna_fetch_kits returns or raises whatever pages the server sends,
\* also when no page reports the page size asked for; and a table that the
\* server sends twice in a row ends the loop, whatever the page number.
C29_FetchTerminates ==
    /\ <>FetchEnded
    /\ [][/\ fetch_pc = "loop"
          /\ response.kind = "grid"
          /\ Settled
          /\ last_table = <<response.table>>
          => fetch_pc' = "returned"]_vars

\* The first part of C29 alone.
C29_EventuallyEnded == <>FetchEnded

\* The second part of C29 alone.
C29_SameTableEnds ==
    [][/\ fetch_pc = "loop"
       /\ response.kind = "grid"
       /\ Settled
       /\ last_table = <<response.table>>
       => fetch_pc' = "returned"]_vars

\* The call and rating tokens of the YFull file that are not recognized.
BadYfullTokens ==
    {fix_cols(yfull_rows[i]).call : i \in
        {j \in 1..Len(yfull_rows) : CallRaises(fix_cols(yfull_rows[j]).call)}}
    \cup
    {fix_cols(yfull_rows[i]).rating : i \in
        {j \in 1..Len(yfull_rows) : RatingRaises(fix_cols(yfull_rows[j]).rating)}}

\* The read counts of the YFull file that are not recognized.
BadYfullReadCounts ==
    {fix_cols(yfull_rows[i]).read_count : i \in
        {j \in 1..Len(yfull_rows) :
            ReadCountRaises(fix_cols(yfull_rows[j]).read_count)}}

\* The FTDNA calls that end in none of "+", "-" and "*".
BadFtdnaCalls(empty_too) ==
    UNION {{<<ftdna_cells[i][1][j]>> : j \in
               {k \in 1..Len(ftdna_cells[i][1]) :
                   LET call == ftdna_cells[i][1][k]
                   IN  IF call = <<>> THEN empty_too
                       ELSE call[Len(call)] \notin {"+", "-", "*"}}} :
           i \in {k \in 1..Len(ftdna_cells) : ftdna_cells[k] # None}}

\* C21: an ingestion that meets a call token or a rating token it does not
\* recognize raises an error that names an offending value of the record,
\* and leaves the stored kit database as it was before the command.
C21_BadTokenAborts ==
    [][/\ ingest_pc = "start"
       /\ BadYfullTokens \cup BadFtdnaCalls(TRUE) # {}
       => /\ ingest_pc' = "error"
          /\ ingest_error'[1].kind = "ValueError"
          /\ ingest_error'[1].value \in
                 BadYfullTokens \cup BadYfullReadCounts \cup BadFtdnaCalls(TRUE)
          /\ snp_db' = snp_db]_vars

\* The same for the records whose FTDNA calls are not empty.
C21_BadTokenAbortsNonEmpty ==
    [][/\ ingest_pc = "start"
       /\ BadYfullTokens \cup BadFtdnaCalls(TRUE) # {}
       /\ BadFtdnaCalls(TRUE) = BadFtdnaCalls(FALSE)
       => /\ ingest_pc' = "error"
          /\ ingest_error'[1].kind = "ValueError"
          /\ ingest_error'[1].value \in
                 BadYfullTokens \cup BadYfullReadCounts \cup BadFtdnaCalls(TRUE)
          /\ snp_db' = snp_db]_vars

====
